---- MODULE Spec2Model ----
(***************************************************************************)
(* Film Home School: the glossary loader, the term matcher, the            *)
(* highlighter and the start-up sequence of src/app/app.js and of the two  *)
(* further copies of that file kept in src/unnamed/part_000.               *)
(*                                                                         *)
(* A JavaScript string is modelled as a sequence of one-character strings, *)
(* so "pan" is <<"p","a","n">>.  Offsets are 0-based as in the code; the   *)
(* character at offset i of s is s[i+1].                                   *)
(***************************************************************************)
EXTENDS Integers, Sequences, FiniteSets, TLC

\* ------------------------------------------------------------------------
\* Characters and strings
\* ------------------------------------------------------------------------

LowerCase ==
  <<"a", "b", "c", "d", "e", "f", "g", "h", "i", "j", "k", "l", "m",
    "n", "o", "p", "q", "r", "s", "t", "u", "v", "w", "x", "y", "z">>

UpperCase ==
  <<"A", "B", "C", "D", "E", "F", "G", "H", "I", "J", "K", "L", "M",
    "N", "O", "P", "Q", "R", "S", "T", "U", "V", "W", "X", "Y", "Z">>

Digits == <<"0", "1", "2", "3", "4", "5", "6", "7", "8", "9">>

Range(s) == {s[i] : i \in 1..Len(s)}

\* The class \w of a JavaScript regular expression: [A-Za-z0-9_].
WordChars == Range(LowerCase) \cup Range(UpperCase) \cup Range(Digits) \cup {"_"}

IsWordChar(c) == c \in WordChars

\* White space as String.prototype.trim() removes it (the part in ASCII).
WhiteSpace == {" ", "\t", "\n", "\r"}

IndexIn(c, s) ==
  IF \E i \in 1..Len(s) : s[i] = c
    THEN CHOOSE i \in 1..Len(s) : s[i] = c
    ELSE 0

\* One character through String.prototype.toUpperCase / toLowerCase.
UpperOf == [c \in Range(LowerCase) |-> UpperCase[IndexIn(c, LowerCase)]]

LowerOf == [c \in Range(UpperCase) |-> LowerCase[IndexIn(c, UpperCase)]]

charToUpperCase(c) == IF c \in DOMAIN UpperOf THEN UpperOf[c] ELSE c

charToLowerCase(c) == IF c \in DOMAIN LowerOf THEN LowerOf[c] ELSE c

toLowerCase(s) == [i \in 1..Len(s) |-> charToLowerCase(s[i])]

\* s.substring(from, to) for 0 <= from <= to <= s.length.
substring(s, from, to) == SubSeq(s, from + 1, to)

\* The value null (and undefined where the code treats the two alike); it is
\* no string of characters.
Null == <<"<null>">>

\* JavaScript truthiness of a string-or-null value.
Truthy(v) == v # Null /\ v # <<>>

RECURSIVE trimStart(_)
trimStart(s) ==
  IF s # <<>> /\ Head(s) \in WhiteSpace THEN trimStart(Tail(s)) ELSE s

RECURSIVE trimEnd(_)
trimEnd(s) ==
  IF s # <<>> /\ s[Len(s)] \in WhiteSpace
    THEN trimEnd(SubSeq(s, 1, Len(s) - 1))
    ELSE s

\* `${v}`: null prints as the four letters.
toString(v) == IF v = Null THEN <<"n", "u", "l", "l">> ELSE v

\* String.prototype.trim()
trim(s) == trimEnd(trimStart(s))

\* ------------------------------------------------------------------------
\* The regular expressions the matcher builds
\* ------------------------------------------------------------------------

\* The characters the matcher escapes: the class [.*+?^${}()|[\]\\].
SpecialChars ==
  {".", "*", "+", "?", "^", "$", "{", "}", "(", ")", "|", "[", "]", "\\"}

\* term.replace(/[.*+?^${}()|[\]\\]/g, '\\$&'): a backslash before every
\* special character.
RECURSIVE escapedTerm(_)
escapedTerm(term) ==
  IF term = <<>> THEN <<>>
  ELSE (IF Head(term) \in SpecialChars
          THEN <<"\\", Head(term)>>
          ELSE <<Head(term)>>) \o escapedTerm(Tail(term))

\* The pattern source `\\b${escapedTerm}\\b`.
PatternSource(term) == <<"\\", "b">> \o escapedTerm(term) \o <<"\\", "b">>

\* new RegExp(source, 'gi') for the sources the matchers can build from the
\* characters of the model: \b is a word-boundary assertion, a backslash
\* before any other character makes it a literal, an unescaped dot matches any
\* character but a line terminator, an unescaped parenthesis opens or closes
\* a group, every other character is a literal.
RECURSIVE RegExpAtoms(_)
RegExpAtoms(src) ==
  IF src = <<>> THEN <<>>
  ELSE IF Head(src) = "\\" /\ Len(src) >= 2
    THEN <<(IF src[2] = "b"
              THEN [kind |-> "boundary", ch |-> ""]
              ELSE [kind |-> "literal", ch |-> src[2]])>>
         \o RegExpAtoms(SubSeq(src, 3, Len(src)))
  ELSE IF Head(src) = "."
    THEN <<[kind |-> "any", ch |-> ""]>> \o RegExpAtoms(Tail(src))
  ELSE IF Head(src) \in {"(", ")"}
    THEN <<[kind |-> "group", ch |-> ""]>> \o RegExpAtoms(Tail(src))
  ELSE <<[kind |-> "literal", ch |-> Head(src)]>> \o RegExpAtoms(Tail(src))

IsWordAt(text, i) == i >= 0 /\ i < Len(text) /\ IsWordChar(text[i + 1])

\* \b at offset p: exactly one of the characters around p is a word character.
AtWordBoundary(text, p) == IsWordAt(text, p - 1) # IsWordAt(text, p)

\* The atom test of a pattern built without the flag i.
AtomMatches_caseSensitive(atom, text, p) ==
  CASE atom.kind = "boundary" -> AtWordBoundary(text, p)
    [] atom.kind = "literal" -> p < Len(text) /\ text[p + 1] = atom.ch
    [] atom.kind = "any" -> p < Len(text) /\ text[p + 1] \notin {"\n", "\r"}
    [] atom.kind = "group" -> TRUE

\* Whether one atom matches at offset p (flag i: characters are compared
\* after canonicalisation to upper case).
AtomMatches(atom, text, p) ==
  CASE atom.kind = "boundary" -> AtWordBoundary(text, p)
    [] atom.kind = "literal" ->
         p < Len(text) /\ charToUpperCase(text[p + 1]) = charToUpperCase(atom.ch)
    [] atom.kind = "any" -> p < Len(text) /\ text[p + 1] \notin {"\n", "\r"}
    [] atom.kind = "group" -> TRUE

AtomWidth(atom) == IF atom.kind \in {"boundary", "group"} THEN 0 ELSE 1

\* The offset at which a match of atoms k.. that starts at offset p ends, or
\* -1 when there is none.
RECURSIVE MatchFrom(_, _, _, _)
MatchFrom(atoms, k, text, p) ==
  IF k > Len(atoms) THEN p
  ELSE IF AtomMatches(atoms[k], text, p)
    THEN MatchFrom(atoms, k + 1, text, p + AtomWidth(atoms[k]))
    ELSE -1

\* regex.exec(text) with regex.lastIndex = lastIndex: the leftmost match at or
\* after lastIndex, as [index, end], or index -1 for null.
exec(atoms, text, lastIndex) ==
  LET starts == {i \in lastIndex..Len(text) : MatchFrom(atoms, 1, text, i) >= 0}
  IN  IF starts = {} THEN [index |-> -1, end |-> -1]
      ELSE LET first == CHOOSE i \in starts : \A j \in starts : i <= j
           IN  [index |-> first, end |-> MatchFrom(atoms, 1, text, first)]

\* while ((match = regex.exec(text)) !== null) { matches.push(...) }.  exec
\* sets lastIndex to the end of the match; after an empty match lastIndex does
\* not move, the same match is found again and the loop never ends (hang).
RECURSIVE execLoop(_, _, _)
execLoop(atoms, text, lastIndex) ==
  LET m == exec(atoms, text, lastIndex)
  IN  IF m.index < 0 THEN [found |-> <<>>, hang |-> FALSE]
      ELSE IF m.end = m.index THEN [found |-> <<>>, hang |-> TRUE]
      ELSE LET rest == execLoop(atoms, text, m.end)
           IN  [found |-> <<m>> \o rest.found, hang |-> rest.hang]

\* ------------------------------------------------------------------------
\* The highlighter state: one text node under highlightInElement
\* ------------------------------------------------------------------------

VARIABLES
  \* highlightInElement on one text node
  glossaryMap,     \* the Map handed to highlightGlossaryTerms, in insertion order
  text,            \* textNode.textContent
  terms,           \* the entries sorted longest term first
  matches,         \* the collected matches after matches.sort
  nonOverlapping,  \* the kept matches
  fragment,        \* the nodes that replace the text node
  hlpc,            \* "ready", then "rejected", "replaced", "untouched" or "hung"
  \* the first copy's highlightGlossaryTerms, which rewrites innerHTML
  innerHTML,       \* element.innerHTML of the scanned container
  firstPassHTML,   \* innerHTML as the first invocation left it
  passes,          \* invocations of highlightGlossaryTerms so far
  threw,           \* whether an invocation ended with an exception
  \* init and the loaders
  variant,         \* which copy of the file runs: "wiki", "app" or "first"
  initpc,          \* where init stands
  response,        \* what the glossary query resolved with
  csv,             \* what a fetch of /local_files/glossary.csv yields
  fetches,         \* fetches of the local file so far
  loaded,          \* whether loadGlossary has resolved, and with which Map
  highlightCalls,  \* invocations of highlightGlossaryTerms by init
  tooltips,        \* tooltip elements appended to the body
  listeners,       \* document listeners registered by initializeGlossaryTooltips
  \* the tooltip of initializeGlossaryTooltips
  tip,             \* the tooltip element and the closure's currentTerm, hideTimeout
  event,            \* the event handled last, with the tooltip as it was before
  \* positionTooltip
  rect,            \* target.getBoundingClientRect(): top, bottom, left (viewport)
  tooltipRect,     \* tooltip.getBoundingClientRect(): height, width
  window,          \* scrollX, scrollY, innerWidth
  style,           \* tooltip.style.top and .left, in px
  pospc,           \* "unset", "positioned", or "stale" after a scroll
  \* highlightGlossaryTerms over the document
  document,        \* the child nodes of the body
  documentBefore,  \* the same before highlightGlossaryTerms was called
  dompc            \* "ready", then "noop" (no container) or "done"

hlVars == <<glossaryMap, text, terms, matches, nonOverlapping, fragment, hlpc>>

htmlVars == <<innerHTML, firstPassHTML, passes, threw>>

initVars ==
  <<variant, initpc, response, csv, fetches, loaded, highlightCalls, tooltips,
    listeners>>

tipVars == <<tip, event>>

posVars == <<rect, tooltipRect, window, style, pospc>>

domVars == <<document, documentBefore, dompc>>

vars == <<hlVars, htmlVars, initVars, tipVars, posVars, domVars>>

\* The variables of a part of the program that a specification leaves out.
IdleScan ==
  /\ text = <<>>
  /\ terms = <<>>
  /\ matches = <<>>
  /\ nonOverlapping = <<>>
  /\ fragment = <<>>
  /\ hlpc = "idle"

IdleHtml ==
  /\ innerHTML = <<>>
  /\ firstPassHTML = <<>>
  /\ passes = 0
  /\ threw = FALSE

IdleInit ==
  /\ variant = "none"
  /\ initpc = "idle"
  /\ response = [kind |-> "none", data |-> <<>>]
  /\ csv = [kind |-> "none", csvText |-> <<>>]
  /\ fetches = 0
  /\ loaded = [resolved |-> FALSE, map |-> <<>>]
  /\ highlightCalls = 0
  /\ tooltips = 0
  /\ listeners = 0

\* The tooltip as initializeGlossaryTooltips creates it: no class show, no
\* content, currentTerm null (0), hideTimeout null.  timers is the number of
\* timers of this closure that are set and have neither run nor been cleared.
newTooltip ==
  [show |-> FALSE, definition |-> Null, link |-> Null, currentTerm |-> 0,
   hideTimeout |-> "null", positionedFor |-> 0, timers |-> 0]

\* No event yet.  An event is kept with its type, where its target lies and
\* the tooltip as the listeners found it.
NoEvent ==
  [type |-> "none", target |-> [kind |-> "none", el |-> 0], before |-> newTooltip]

IdleTip ==
  /\ tip = newTooltip
  /\ event = NoEvent

IdlePos ==
  /\ rect = [top |-> 0, bottom |-> 0, left |-> 0]
  /\ tooltipRect = [height |-> 0, width |-> 0]
  /\ window = [scrollX |-> 0, scrollY |-> 0, innerWidth |-> 0]
  /\ style = [top |-> Null, left |-> Null]
  /\ pospc = "idle"

IdleDom ==
  /\ document = <<>>
  /\ documentBefore = <<>>
  /\ dompc = "idle"

\* A DOM node.  A text node has nodeType "text" and its characters in
\* textContent; an element has nodeType "element", a class name, the two data
\* attributes (Null when absent) and its child nodes.  id tells the nodes of
\* the page apart; a node that the highlighter creates has id 0.
TextNode(t) ==
  [nodeType |-> "text", id |-> 0, className |-> "", definition |-> Null,
   wikipedia_url |-> Null, textContent |-> t, childNodes |-> <<>>]

Element(cls, def, url, kids) ==
  [nodeType |-> "element", id |-> 0, className |-> cls, definition |-> def,
   wikipedia_url |-> url, textContent |-> <<>>, childNodes |-> kids]

\* Stable insertion of entry e into a list ordered by falling term length
\* (b[0].length - a[0].length): e goes after every entry at least as long.
RECURSIVE InsertByLength(_, _)
InsertByLength(sorted, e) ==
  IF sorted = <<>> THEN <<e>>
  ELSE IF Len(Head(sorted).term) >= Len(e.term)
    THEN <<Head(sorted)>> \o InsertByLength(Tail(sorted), e)
    ELSE <<e>> \o sorted

RECURSIVE SortByLength(_)
SortByLength(entries) ==
  IF entries = <<>> THEN <<>>
  ELSE InsertByLength(SortByLength(SubSeq(entries, 1, Len(entries) - 1)),
                      entries[Len(entries)])

\* The term list left in insertion order (the sort forgotten).
sortTerms_unsorted(entries) == entries

\* Array.from(glossaryMap.entries()).sort((a, b) => b[0].length - a[0].length)
sortTerms(entries) == SortByLength(entries)

\* matches.push({ start, end, text, definition, wikipedia_url, term })
matchRecord(txt, entry, m) ==
  [start |-> m.index,
   end |-> m.end,
   text |-> substring(txt, m.index, m.end),
   definition |-> entry.definition,
   wikipedia_url |-> entry.wikipedia_url,
   term |-> entry.term]

\* The matches of one term in text: the while loop around regex.exec.
matchesOfTerm(txt, entry) ==
  LET r == execLoop(RegExpAtoms(PatternSource(entry.term)), txt, 0)
  IN  [found |-> [i \in 1..Len(r.found) |-> matchRecord(txt, entry, r.found[i])],
       hang |-> r.hang]

\* terms.forEach(([term, data]) => { ... matches.push(...) ... })
RECURSIVE findMatches(_, _)
findMatches(txt, ts) ==
  IF ts = <<>> THEN [found |-> <<>>, hang |-> FALSE]
  ELSE LET first == matchesOfTerm(txt, Head(ts))
       IN  IF first.hang THEN [found |-> first.found, hang |-> TRUE]
           ELSE LET rest == findMatches(txt, Tail(ts))
                IN  [found |-> first.found \o rest.found, hang |-> rest.hang]

\* Stable insertion by start offset (a.start - b.start).
RECURSIVE InsertByStart(_, _)
InsertByStart(sorted, m) ==
  IF sorted = <<>> THEN <<m>>
  ELSE IF Head(sorted).start <= m.start
    THEN <<Head(sorted)>> \o InsertByStart(Tail(sorted), m)
    ELSE <<m>> \o sorted

\* The matches left in the order of the term list (the sort forgotten).
sortMatches_unsorted(ms) == ms

\* matches.sort((a, b) => a.start - b.start)
RECURSIVE sortMatches(_)
sortMatches(ms) ==
  IF ms = <<>> THEN <<>>
  ELSE InsertByStart(sortMatches(SubSeq(ms, 1, Len(ms) - 1)), ms[Len(ms)])

\* The overlap test with its first disjunct lost: only the end is looked at.
overlaps_endOnly(kept, match) ==
  \E i \in 1..Len(kept) :
    match.end > kept[i].start /\ match.end <= kept[i].end

\* nonOverlapping.some(existing => ...)
overlaps(kept, match) ==
  \E i \in 1..Len(kept) :
    \/ (match.start >= kept[i].start /\ match.start < kept[i].end)
    \/ (match.end > kept[i].start /\ match.end <= kept[i].end)

\* matches.forEach(match => { if (!overlaps) nonOverlapping.push(match) })
RECURSIVE removeOverlaps(_, _)
removeOverlaps(kept, ms) ==
  IF ms = <<>> THEN kept
  ELSE removeOverlaps(IF overlaps(kept, Head(ms)) THEN kept
                      ELSE Append(kept, Head(ms)),
                      Tail(ms))

\* The span element without the attribute of the reference link.
termSpan_noUrl(match) ==
  [nodeType |-> "element", id |-> 0, className |-> "glossary-term",
   definition |-> match.definition,
   wikipedia_url |-> Null,
   textContent |-> <<>>,
   childNodes |-> <<TextNode(match.text)>>]

\* The span element created for a kept match.
termSpan(match) ==
  [nodeType |-> "element", id |-> 0, className |-> "glossary-term",
   definition |-> match.definition,
   wikipedia_url |-> IF Truthy(match.wikipedia_url) THEN match.wikipedia_url
                     ELSE Null,
   textContent |-> <<>>,
   childNodes |-> <<TextNode(match.text)>>]

\* nonOverlapping.forEach(match => { ... }) and the remaining text.
RECURSIVE buildFragment(_, _, _)
buildFragment(txt, kept, lastIndex) ==
  IF kept = <<>>
    THEN IF lastIndex < Len(txt)
           THEN <<TextNode(substring(txt, lastIndex, Len(txt)))>>
           ELSE <<>>
    ELSE (IF Head(kept).start > lastIndex
            THEN <<TextNode(substring(txt, lastIndex, Head(kept).start))>>
            ELSE <<>>)
         \o <<termSpan(Head(kept))>>
         \o buildFragment(txt, Tail(kept), Head(kept).end)

\* ------------------------------------------------------------------------
\* Specification SpecScan: highlightInElement on one text node
\* ------------------------------------------------------------------------

\* Bounds of the inputs.
MaxTextLen == 5
MaxTerms == 2

\* The characters of the scanned texts: a letter in both cases and a character
\* that is no word character and is special in a pattern.
ScanAlphabet == {"a", "A", "."}

RECURSIVE StringsUpTo(_, _)
StringsUpTo(alphabet, n) ==
  IF n = 0 THEN {<<>>}
  ELSE LET shorter == StringsUpTo(alphabet, n - 1)
       IN  shorter \cup {Append(s, c) : s \in shorter, c \in alphabet}

\* Texts with white space, beside the texts over the alphabet.
SpacedTexts ==
  { <<" ">>, <<" ", " ">>, <<"a", " ", "a">>, <<"A", " ", "a">>,
    <<" ", "a", " ">>, <<"a", " ", "a", " ", "a">>, <<"a", "a", " ", "a">>,
    <<"a", " ", "A", "a">> }

Texts == StringsUpTo(ScanAlphabet, MaxTextLen) \cup SpacedTexts

\* The terms a dictionary of the model is drawn from: a word, the same word
\* in the other case, a two-word phrase that contains it, a longer word, and
\* two terms that begin or end with a character that is no word character.
TermPool ==
  << <<"a">>, <<"A", "a">>, <<"a", " ", "a">>, <<"a", ".">>,
     <<".", "a", ".">>, <<"A">> >>

EntryPool ==
  [i \in 1..Len(TermPool) |->
     [term |-> TermPool[i],
      definition |-> <<"D", Digits[i + 1]>>,
      wikipedia_url |-> IF i % 2 = 0 THEN <<"U", Digits[i + 1]>> ELSE Null]]

\* Every Map of at most n entries of the pool, in every insertion order.
MapsUpTo(pool, n) ==
  UNION {{[k \in 1..m |-> pool[f[k]]] :
            f \in {g \in [1..m -> 1..Len(pool)] :
                     \A x, y \in 1..m : x # y => g[x] # g[y]}} :
         m \in 0..n}

InitScan ==
  /\ glossaryMap \in MapsUpTo(EntryPool, MaxTerms)
  /\ text \in Texts
  /\ terms = <<>>
  /\ matches = <<>>
  /\ nonOverlapping = <<>>
  /\ fragment = <<>>
  /\ hlpc = "ready"
  /\ IdleHtml
  /\ IdleInit
  /\ IdleTip
  /\ IdlePos
  /\ IdleDom

\* highlightInElement on the one text node of the element: acceptNode
\* rejects a text node that holds white space only, which is then never
\* scanned; for an accepted node, the body of textNodes.forEach.  (The node
\* has no annotated parent.)
highlightInElement(map) ==
  IF trim(text) = <<>>
    THEN /\ hlpc' = "rejected"
         /\ UNCHANGED <<terms, matches, nonOverlapping, fragment>>
    ELSE /\ terms' = sortTerms(map)
         /\ LET found == findMatches(text, terms')
            IN  IF found.hang
                  THEN /\ hlpc' = "hung"
                       /\ UNCHANGED <<matches, nonOverlapping, fragment>>
                  ELSE IF Len(found.found) > 0
                    THEN /\ matches' = sortMatches(found.found)
                         /\ nonOverlapping' = removeOverlaps(<<>>, matches')
                         /\ fragment' = buildFragment(text, nonOverlapping', 0)
                         /\ hlpc' = "replaced"
                    ELSE /\ hlpc' = "untouched"
                         /\ UNCHANGED <<matches, nonOverlapping, fragment>>

\* highlightGlossaryTerms over an element whose text is white space only.
RejectTextNode ==
  /\ hlpc = "ready"
  /\ trim(text) = <<>>
  /\ highlightInElement(glossaryMap)
  /\ UNCHANGED <<glossaryMap, text>>
  /\ UNCHANGED <<htmlVars, initVars, tipVars, posVars, domVars>>

\* highlightGlossaryTerms over an element with text to scan.
ScanTextNode ==
  /\ hlpc = "ready"
  /\ trim(text) # <<>>
  /\ highlightInElement(glossaryMap)
  /\ UNCHANGED <<glossaryMap, text>>
  /\ UNCHANGED <<htmlVars, initVars, tipVars, posVars, domVars>>

NextScan == RejectTextNode \/ ScanTextNode

SpecScan == InitScan /\ [][NextScan]_vars

\* ------------------------------------------------------------------------
\* The first copy of the file (src/unnamed/part_000 from line 532):
\* highlightGlossaryTerms rewrites element.innerHTML
\* ------------------------------------------------------------------------

\* The pattern source `\\b(${term})\\b`: the term is not escaped.
PatternSourceFirst(term) == <<"\\", "b", "(">> \o toString(term) \o <<")", "\\", "b">>

SpanOpen ==
  <<"<", "s", "p", "a", "n", " ", "c", "l", "a", "s", "s", "=", "\"",
    "g", "l", "o", "s", "s", "a", "r", "y", "-", "t", "e", "r", "m", "\"",
    " ", "d", "a", "t", "a", "-", "d", "e", "f", "i", "n", "i", "t", "i",
    "o", "n", "=", "\"">>

SpanClose == <<"<", "/", "s", "p", "a", "n", ">">>

\* `<span class="glossary-term" data-definition="${definition}">${match}</span>`
spanMarkup(definition, match) ==
  SpanOpen \o toString(definition) \o <<"\"", ">">> \o match \o SpanClose

\* The matches String.prototype.replace visits with a global pattern: after
\* an empty match the search resumes one character further on.
RECURSIVE replaceMatches(_, _, _)
replaceMatches(atoms, html, lastIndex) ==
  LET m == exec(atoms, html, lastIndex)
  IN  IF m.index < 0 THEN <<>>
      ELSE <<m>> \o replaceMatches(atoms, html,
                                   IF m.end = m.index THEN m.end + 1 ELSE m.end)

\* The string replace builds: the text between the matches, each match
\* replaced by the markup around it.
RECURSIVE replaceBuild(_, _, _, _)
replaceBuild(html, ms, definition, copied) ==
  IF ms = <<>> THEN substring(html, copied, Len(html))
  ELSE substring(html, copied, Head(ms).index)
       \o spanMarkup(definition, substring(html, Head(ms).index, Head(ms).end))
       \o replaceBuild(html, Tail(ms), definition, Head(ms).end)

\* innerHTML.replace(regex, (match) => `<span ...>${match}</span>`)
replaceTerm(html, entry) ==
  replaceBuild(html,
               replaceMatches(RegExpAtoms(PatternSourceFirst(entry.term)), html, 0),
               entry.definition, 0)

\* Whether the groups of a pattern source are well formed: every unescaped
\* "(" is closed, no unescaped ")" comes without one, and the source does not
\* end in a lone backslash.
RECURSIVE groupsBalanced(_, _)
groupsBalanced(src, depth) ==
  IF src = <<>> THEN depth = 0
  ELSE IF Head(src) = "\\"
    THEN Len(src) >= 2 /\ groupsBalanced(SubSeq(src, 3, Len(src)), depth)
  ELSE IF Head(src) = "("
    THEN groupsBalanced(Tail(src), depth + 1)
  ELSE IF Head(src) = ")"
    THEN depth > 0 /\ groupsBalanced(Tail(src), depth - 1)
  ELSE groupsBalanced(Tail(src), depth)

\* new RegExp(src, 'gi') throws a SyntaxError.  (Of the pattern syntax the
\* terms of this model use groups, the dot and the backslash.)
RegExpThrows(src) == ~groupsBalanced(src, 0)

\* The forEach of the first copy meets a term whose pattern does not compile:
\* the exception leaves highlightGlossaryTerms before element.innerHTML is
\* assigned.
highlightFirstThrows(entries) ==
  \E i \in 1..Len(entries) : RegExpThrows(PatternSourceFirst(entries[i].term))

\* glossaryMap.forEach((definition, term) => { innerHTML = innerHTML.replace(...) })
RECURSIVE highlightFirst(_, _)
highlightFirst(html, entries) ==
  IF entries = <<>> THEN html
  ELSE highlightFirst(replaceTerm(html, Head(entries)), Tail(entries))

\* ------------------------------------------------------------------------
\* Specification SpecTwice: highlightGlossaryTerms of the first copy, invoked
\* twice on the same container
\* ------------------------------------------------------------------------

\* The text of the container before the first invocation.
PageTexts ==
  { <<"a">>, <<"A", " ", "a">>, <<"a", "a">>, <<"a", ".", "a">>,
    <<"a", " ", "a">>, <<"A", "a", " ", "a">>, <<" ">>, <<".">> }

\* The dictionaries of this specification: the entries of the matcher's pool
\* and one whose term has an open parenthesis.
FirstCopyPool ==
  Append(EntryPool,
         [term |-> <<"a", "(">>, definition |-> <<"D", "7">>, wikipedia_url |-> Null])

InitTwice ==
  /\ glossaryMap \in MapsUpTo(FirstCopyPool, MaxTerms)
  /\ innerHTML \in PageTexts
  /\ firstPassHTML = <<>>
  /\ passes = 0
  /\ threw = FALSE
  \* the one text node of the container, as it is before the first invocation
  /\ text = innerHTML
  /\ terms = <<>>
  /\ matches = <<>>
  /\ nonOverlapping = <<>>
  /\ fragment = <<>>
  /\ hlpc = "idle"
  /\ IdleInit
  /\ IdleTip
  /\ IdlePos
  /\ IdleDom

\* highlightGlossaryTerms(selector, glossaryMap) on the one container.
HighlightFirstCopy ==
  /\ passes = 0
  /\ IF highlightFirstThrows(glossaryMap)
       THEN /\ threw' = TRUE
            /\ UNCHANGED innerHTML
       ELSE /\ innerHTML' = highlightFirst(innerHTML, glossaryMap)
            /\ UNCHANGED threw
  /\ firstPassHTML' = innerHTML'
  /\ passes' = 1
  /\ UNCHANGED <<hlVars, initVars, tipVars, posVars, domVars>>

\* The second invocation, on what the first one left.
HighlightFirstCopyAgain ==
  /\ passes = 1
  /\ IF highlightFirstThrows(glossaryMap)
       THEN /\ threw' = TRUE
            /\ UNCHANGED innerHTML
       ELSE /\ innerHTML' = highlightFirst(innerHTML, glossaryMap)
            /\ UNCHANGED threw
  /\ passes' = 2
  /\ UNCHANGED <<firstPassHTML, hlVars, initVars, tipVars, posVars, domVars>>

NextTwice == HighlightFirstCopy \/ HighlightFirstCopyAgain

SpecTwice == InitTwice /\ [][NextTwice]_vars

\* ------------------------------------------------------------------------
\* The loaders: loadGlossary and loadGlossaryFromCSV
\* ------------------------------------------------------------------------

\* The k-th smallest element of a set of numbers.
Nth(S, k) == CHOOSE x \in S : Cardinality({y \in S : y < x}) = k - 1

\* s.split(sep) for a one-character separator.
split(s, sep) ==
  LET P == {i \in 1..Len(s) : s[i] = sep}
      n == Cardinality(P)
      cut(k) == IF k = 0 THEN 0 ELSE IF k = n + 1 THEN Len(s) + 1 ELSE Nth(P, k)
  IN  [k \in 1..(n + 1) |-> SubSeq(s, cut(k - 1) + 1, cut(k) - 1)]

\* array.indexOf(x): the 0-based index of the first element equal to x, or -1.
indexOf(array, x) ==
  IF \E i \in 1..Len(array) : array[i] = x
    THEN (CHOOSE i \in 1..Len(array) :
            array[i] = x /\ \A j \in 1..(i - 1) : array[j] # x) - 1
    ELSE -1

\* s.includes(pat)
includes(s, pat) ==
  \E i \in 0..Len(s) :
    i + Len(pat) <= Len(s) /\ \A k \in 1..Len(pat) : s[i + k] = pat[k]

\* header.findIndex(col => col.includes('wiki'))
findWikiIndex(header) ==
  LET hits == {i \in 1..Len(header) : includes(header[i], <<"w", "i", "k", "i">>)}
  IN  IF hits = {} THEN -1 ELSE Nth(hits, 1) - 1

\* array[i] for a 0-based index; Null (undefined) when there is no such element.
at(array, i) == IF i >= 0 /\ i < Len(array) THEN array[i + 1] ELSE Null

\* v.replace(/^"|"$/g, ''): a quote at the very start and a quote at the very
\* end are removed.
stripQuotes(v) ==
  LET a == IF v # <<>> /\ Head(v) = "\"" THEN Tail(v) ELSE v
  IN  IF a # <<>> /\ a[Len(a)] = "\"" THEN SubSeq(a, 1, Len(a) - 1) ELSE a

\* values[i]?.replace(/^"|"$/g, '').trim(); undefined stays undefined.
fieldValue(values, i) ==
  IF at(values, i) = Null THEN Null ELSE trim(stripQuotes(at(values, i)))

\* definition.replace(/""/g, '"')
RECURSIVE unescapeQuotes(_)
unescapeQuotes(v) ==
  IF Len(v) < 2 THEN v
  ELSE IF v[1] = "\"" /\ v[2] = "\""
    THEN <<"\"">> \o unescapeQuotes(SubSeq(v, 3, Len(v)))
    ELSE <<v[1]>> \o unescapeQuotes(Tail(v))

\* glossaryMap.set(key, value): a new key is appended, a known key keeps its
\* place and takes the new value.
mapSet(map, entry) ==
  IF \E i \in 1..Len(map) : map[i].term = entry.term
    THEN [i \in 1..Len(map) |->
            IF map[i].term = entry.term THEN entry ELSE map[i]]
    ELSE Append(map, entry)

\* x || null
orNull(x) == IF Truthy(x) THEN x ELSE Null

\* One data line of the file in the copy with reference links
\* (part_000:171-192): the Map after the line.
csvLineWiki(map, rawLine, termIndex, definitionIndex, wikiIndex) ==
  LET line == trim(rawLine)
      values == split(line, ",")
      term == fieldValue(values, termIndex)
      definition == fieldValue(values, definitionIndex)
      wikipedia_url == IF wikiIndex >= 0 THEN fieldValue(values, wikiIndex)
                       ELSE Null
  IN  IF line = <<>> THEN map
      ELSE IF Len(values) > definitionIndex /\ Truthy(term) /\ Truthy(definition)
        THEN mapSet(map, [term |-> term,
                          definition |-> unescapeQuotes(definition),
                          wikipedia_url |-> orNull(wikipedia_url)])
        ELSE map

\* The loop that gives up at the first line with too few values.
RECURSIVE csvLinesWiki_stopAtBadRow(_, _, _, _, _, _)
csvLinesWiki_stopAtBadRow(map, lines, i, termIndex, definitionIndex, wikiIndex) ==
  IF i > Len(lines) THEN map
  ELSE IF Len(split(trim(lines[i]), ",")) <= definitionIndex THEN map
  ELSE csvLinesWiki_stopAtBadRow(
         csvLineWiki(map, lines[i], termIndex, definitionIndex, wikiIndex),
         lines, i + 1, termIndex, definitionIndex, wikiIndex)

\* for (let i = 1; i < lines.length; i++) { ... }
RECURSIVE csvLinesWiki(_, _, _, _, _, _)
csvLinesWiki(map, lines, i, termIndex, definitionIndex, wikiIndex) ==
  IF i > Len(lines) THEN map
  ELSE csvLinesWiki(csvLineWiki(map, lines[i], termIndex, definitionIndex, wikiIndex),
                    lines, i + 1, termIndex, definitionIndex, wikiIndex)

\* The parsing part of loadGlossaryFromCSV, copy with reference links
\* (part_000:159-196).
parseCsvWiki(csvText) ==
  LET lines == split(csvText, "\n")
      header == split(toLowerCase(lines[1]), ",")
  IN  csvLinesWiki(<<>>, lines, 2,
                   indexOf(header, <<"t", "e", "r", "m">>),
                   indexOf(header, <<"d", "e", "f", "i", "n", "i", "t", "i", "o", "n">>),
                   findWikiIndex(header))

\* line.match(/^"?([^"]+)"?,(.+)$/) of app.js: the offsets [p, q) of group 1
\* and the offset r where group 2 starts, or p = -1 when the line does not
\* match.  After an optional opening quote, group 1 is a run of characters
\* other than the quote, as long as possible; it is followed by an optional
\* quote, a comma and at least one more character.
csvLineMatch(line) ==
  LET p == IF line # <<>> /\ Head(line) = "\"" THEN 1 ELSE 0
      isQuote(i) == i < Len(line) /\ line[i + 1] = "\""
      isComma(i) == i < Len(line) /\ line[i + 1] = ","
      run == Cardinality({n \in 1..(Len(line) - p) :
                            \A k \in 1..n : line[p + k] # "\""})
      \* group 1 of length n, then quote?, comma, and a rest that is not empty
      endsWithQuote(n) == n = run /\ isQuote(p + n) /\ isComma(p + n + 1)
                          /\ p + n + 2 < Len(line)
      endsPlain(n) == isComma(p + n) /\ p + n + 1 < Len(line)
      fits == {n \in 1..run : endsWithQuote(n) \/ endsPlain(n)}
  IN  IF fits = {} THEN [p |-> -1, q |-> -1, r |-> -1]
      ELSE LET n == Nth(fits, Cardinality(fits))
           IN  [p |-> p, q |-> p + n,
                r |-> IF endsWithQuote(n) THEN p + n + 2 ELSE p + n + 1]

\* One data line of the file in app.js (app.js:162-180).
csvLineApp(map, rawLine) ==
  LET line == trim(rawLine)
      m == csvLineMatch(line)
      term == trim(substring(line, m.p, m.q))
      raw == trim(substring(line, m.r, Len(line)))
      unquoted == IF Len(raw) >= 1 /\ Head(raw) = "\"" /\ raw[Len(raw)] = "\""
                    THEN SubSeq(raw, 2, Len(raw) - 1)
                    ELSE raw
  IN  IF line = <<>> \/ m.p < 0 THEN map
      ELSE mapSet(map, [term |-> term,
                        definition |-> unescapeQuotes(unquoted),
                        wikipedia_url |-> Null])

RECURSIVE csvLinesApp(_, _, _)
csvLinesApp(map, lines, i) ==
  IF i > Len(lines) THEN map
  ELSE csvLinesApp(csvLineApp(map, lines[i]), lines, i + 1)

\* The parsing part of loadGlossaryFromCSV of app.js (app.js:156-184).
parseCsvApp(csvText) == csvLinesApp(<<>>, split(csvText, "\n"), 2)

\* loadGlossaryFromCSV: what it resolves with, given what the fetch of
\* /local_files/glossary.csv yields.  file.kind is "rejects" (fetch or
\* response.text() throws), "notok" (response.ok is false) or "ok".
loadGlossaryFromCSV(v, file) ==
  IF file.kind = "ok"
    THEN IF v = "app" THEN parseCsvApp(file.csvText) ELSE parseCsvWiki(file.csvText)
    ELSE <<>>

\* The build that stops after the first row of the response.
remoteMap_firstRowOnly(v, map, rows) ==
  IF rows = <<>> THEN map
  ELSE IF Truthy(Head(rows).term) /\ Truthy(Head(rows).definition)
    THEN Append(map, [term |-> Head(rows).term,
                      definition |-> Head(rows).definition,
                      wikipedia_url |-> IF v = "app" THEN Null
                                        ELSE Head(rows).wikipedia_url])
    ELSE map

\* data.forEach(entry => { if (entry.term && entry.definition) glossaryMap.set(...) })
\* of the two later copies; app.js stores the definition alone.
RECURSIVE remoteMap(_, _, _)
remoteMap(v, map, rows) ==
  IF rows = <<>> THEN map
  ELSE remoteMap(v,
                 IF Truthy(Head(rows).term) /\ Truthy(Head(rows).definition)
                   THEN mapSet(map, [term |-> Head(rows).term,
                                     definition |-> Head(rows).definition,
                                     wikipedia_url |->
                                       IF v = "app" THEN Null
                                       ELSE orNull(Head(rows).wikipedia_url)])
                   ELSE map,
                 Tail(rows))

\* data.forEach(entry => { glossaryMap.set(entry.term, entry.definition) }) of
\* the first copy: every row is stored.
RECURSIVE remoteMapFirst(_, _)
remoteMapFirst(map, rows) ==
  IF rows = <<>> THEN map
  ELSE remoteMapFirst(mapSet(map, [term |-> Head(rows).term,
                                   definition |-> Head(rows).definition,
                                   wikipedia_url |-> Null]),
                      Tail(rows))

\* Whether loadGlossary goes on to loadGlossaryFromCSV once the query has
\* settled.  res.kind is "throws" (the query rejects), "error" (data null,
\* error set), "nodata" (data null, no error) or "rows" (data an array).
needsFallback(v, res) ==
  /\ v \in {"wiki", "app"}
  /\ \/ res.kind \in {"throws", "error", "nodata"}
     \/ res.kind = "rows" /\ Len(res.data) = 0

\* What loadGlossary resolves with when it does not go on to the local file.
remoteResult(v, res) ==
  IF v = "first"
    THEN IF res.kind = "rows" THEN remoteMapFirst(<<>>, res.data) ELSE <<>>
    ELSE remoteMap(v, <<>>, res.data)

\* ------------------------------------------------------------------------
\* Specification SpecInit: init, from DOMContentLoaded to loadContent
\* ------------------------------------------------------------------------

MaxRows == 2

\* Texts of /local_files/glossary.csv.
CsvTexts ==
  <<
    \* the example of the documentation
    <<"t", "e", "r", "m", ",", "d", "e", "f", "i", "n", "i", "t", "i", "o",
      "n", "\n", "\"", "a", "p", "e", "r", "t", "u", "r", "e", "\"", ",",
      "\"", "t", "h", "e", " ", "o", "p", "e", "n", "i", "n", "g", " ",
      "t", "h", "a", "t", " ", "c", "o", "n", "t", "r", "o", "l", "s", " ",
      "l", "i", "g", "h", "t", "\"">>,
    \* a quoted term with a comma
    <<"t", "e", "r", "m", ",", "d", "e", "f", "i", "n", "i", "t", "i", "o",
      "n", "\n", "\"", "a", ",", "b", "\"", ",", "\"", "c", "\"">>,
    \* a quoted definition with a comma
    <<"t", "e", "r", "m", ",", "d", "e", "f", "i", "n", "i", "t", "i", "o",
      "n", "\n", "a", ",", "\"", "b", ",", " ", "c", "\"">>,
    \* a quoted definition with doubled quotes
    <<"t", "e", "r", "m", ",", "d", "e", "f", "i", "n", "i", "t", "i", "o",
      "n", "\n", "a", ",", "\"", "b", " ", "\"", "\"", "c", "\"", "\"",
      " ", "d", "\"">>,
    \* a quoted term with doubled quotes
    <<"t", "e", "r", "m", ",", "d", "e", "f", "i", "n", "i", "t", "i", "o",
      "n", "\n", "\"", "a", " ", "\"", "\"", "b", "\"", "\"", "\"", ",", "c">>,
    \* a column of reference links, one row without a link, a final newline
    <<"T", "e", "r", "m", ",", "D", "e", "f", "i", "n", "i", "t", "i", "o",
      "n", ",", "W", "i", "k", "i", "p", "e", "d", "i", "a", "_", "U", "R",
      "L", "\n", "a", ",", "D", "1", ",", "U", "1", "\n", "A", "a", ",",
      "D", "2", ",", "\n">>,
    \* a quoted comma before the link column
    <<"t", "e", "r", "m", ",", "d", "e", "f", "i", "n", "i", "t", "i", "o",
      "n", ",", "w", "i", "k", "i", "p", "e", "d", "i", "a", "_", "u", "r",
      "l", "\n", "\"", "a", "\"", ",", "\"", "b", ",", " ", "c", "\"", ",",
      "U", "1">>,
    \* a row that lacks the definition, and a blank line
    <<"t", "e", "r", "m", ",", "d", "e", "f", "i", "n", "i", "t", "i", "o",
      "n", "\n", "a", "\n", "\n", "A", "a", ",", "D", "2">>,
    \* the header alone
    <<"t", "e", "r", "m", ",", "d", "e", "f", "i", "n", "i", "t", "i", "o",
      "n">>,
    \* a row that lacks the definition between two rows that have one; the
    \* terms of these two differ by case only
    <<"t", "e", "r", "m", ",", "d", "e", "f", "i", "n", "i", "t", "i", "o",
      "n", "\n", "a", ",", "D", "1", "\n", "A", "a", "\n", "A", ",", "D",
      "6">>,
    \* a row whose quoted term is blank
    <<"t", "e", "r", "m", ",", "d", "e", "f", "i", "n", "i", "t", "i", "o",
      "n", "\n", "\"", " ", "\"", ",", "D", "7">>
  >>

\* What a fetch of the local file can yield: the fetch rejects, the response
\* is not ok, response.text() rejects, or the text arrives.
CsvOutcomes ==
  {[kind |-> k, csvText |-> <<>>] : k \in {"rejects", "notok", "textfails"}}
    \cup {[kind |-> "ok", csvText |-> CsvTexts[i]] : i \in 1..Len(CsvTexts)}

\* Rows of the glossary table: two proper rows, a second row for the term of
\* the first, a row with an empty term and a row without a definition.
RowPool ==
  << EntryPool[1], EntryPool[2],
     [term |-> <<"a">>, definition |-> <<"D", "8">>, wikipedia_url |-> Null],
     [term |-> <<>>, definition |-> <<"D", "7">>, wikipedia_url |-> Null],
     [term |-> <<"A">>, definition |-> Null, wikipedia_url |-> Null] >>

RowsUpTo(n) ==
  UNION {{[k \in 1..m |-> RowPool[f[k]]] : f \in [1..m -> 1..Len(RowPool)]} :
         m \in 0..n}

\* What the glossary query can settle with.  The client reports a failed
\* request as { data: null, error }; the code also provides for a rejection
\* and for data being null without an error.
QueryOutcomes ==
  {[kind |-> k, data |-> <<>>] : k \in {"throws", "error", "nodata"}}
    \cup {[kind |-> "rows", data |-> rows] : rows \in RowsUpTo(MaxRows)}

\* The text of .main-content.
InitPages == { <<"a">>, <<"A", "a", " ", "a">>, <<" ">> }

InitInit ==
  /\ variant \in {"wiki", "app", "first"}
  /\ \E page \in InitPages :
       IF variant = "first"
         THEN /\ innerHTML = page
              /\ text = <<>>
              /\ hlpc = "idle"
         ELSE /\ text = page
              /\ innerHTML = <<>>
              /\ hlpc = "ready"
  /\ glossaryMap = <<>>
  /\ terms = <<>>
  /\ matches = <<>>
  /\ nonOverlapping = <<>>
  /\ fragment = <<>>
  /\ firstPassHTML = <<>>
  /\ passes = 0
  /\ threw = FALSE
  /\ initpc = "start"
  /\ response = [kind |-> "none", data |-> <<>>]
  /\ csv \in CsvOutcomes
  /\ fetches = 0
  /\ loaded = [resolved |-> FALSE, map |-> <<>>]
  /\ highlightCalls = 0
  /\ tooltips = 0
  /\ listeners = 0
  /\ IdleTip
  /\ IdlePos
  /\ IdleDom

\* init up to its first await.  The two later copies call setupEventListeners
\* (the theme toggle) and then loadGlossary, which sends the glossary query;
\* the first copy sends the _health query first.
InitStart ==
  /\ initpc = "start"
  /\ initpc' = IF variant = "first" THEN "awaitHealth" ELSE "awaitQuery"
  /\ UNCHANGED <<variant, response, csv, fetches, loaded, highlightCalls,
                 tooltips, listeners>>
  /\ UNCHANGED <<hlVars, htmlVars, tipVars, posVars, domVars>>

\* First copy: the _health query settles (its result is only logged) and init
\* calls loadGlossary.
HealthResolves ==
  /\ initpc = "awaitHealth"
  /\ initpc' = "awaitQuery"
  /\ UNCHANGED <<variant, response, csv, fetches, loaded, highlightCalls,
                 tooltips, listeners>>
  /\ UNCHANGED <<hlVars, htmlVars, tipVars, posVars, domVars>>

\* The glossary query settles and loadGlossary runs on to its return or to
\* the fetch of the local file.
QueryResolves ==
  /\ initpc = "awaitQuery"
  /\ \E res \in QueryOutcomes :
       /\ response' = res
       /\ IF needsFallback(variant, res)
            THEN /\ initpc' = "awaitFetch"
                 /\ fetches' = fetches + 1
                 /\ UNCHANGED loaded
            ELSE /\ initpc' = "loaded"
                 /\ loaded' = [resolved |-> TRUE, map |-> remoteResult(variant, res)]
                 /\ UNCHANGED fetches
  /\ UNCHANGED <<variant, csv, highlightCalls, tooltips, listeners>>
  /\ UNCHANGED <<hlVars, htmlVars, tipVars, posVars, domVars>>

\* The fetch of the local file settles: a rejection and a response that is
\* not ok end loadGlossaryFromCSV with an empty Map, otherwise it awaits
\* response.text().
FetchResolves ==
  /\ initpc = "awaitFetch"
  /\ IF csv.kind \in {"rejects", "notok"}
       THEN /\ initpc' = "loaded"
            /\ loaded' = [resolved |-> TRUE, map |-> loadGlossaryFromCSV(variant, csv)]
       ELSE /\ initpc' = "awaitText"
            /\ UNCHANGED loaded
  /\ UNCHANGED <<variant, response, csv, fetches, highlightCalls, tooltips,
                 listeners>>
  /\ UNCHANGED <<hlVars, htmlVars, tipVars, posVars, domVars>>

\* response.text() settles: the text is parsed, a rejection gives an empty Map.
TextResolves ==
  /\ initpc = "awaitText"
  /\ initpc' = "loaded"
  /\ loaded' = [resolved |-> TRUE, map |-> loadGlossaryFromCSV(variant, csv)]
  /\ UNCHANGED <<variant, response, csv, fetches, highlightCalls, tooltips,
                 listeners>>
  /\ UNCHANGED <<hlVars, htmlVars, tipVars, posVars, domVars>>

\* await loadGlossary(): init goes on once loadGlossary has resolved.
loadGlossaryAwaited(pc) == pc = "loaded"

\* if (glossaryMap.size > 0)
sizeAboveZero_always(map) == TRUE

sizeAboveZero(map) == Len(map) > 0

\* The rest of init with an empty Map: nothing but loadContent.
InitSkipsHighlight ==
  /\ loadGlossaryAwaited(initpc)
  /\ ~sizeAboveZero(loaded.map)
  /\ initpc' = "done"
  /\ UNCHANGED <<variant, response, csv, fetches, loaded, highlightCalls,
                 tooltips, listeners>>
  /\ UNCHANGED <<hlVars, htmlVars, tipVars, posVars, domVars>>

\* The rest of init in the two later copies: highlightGlossaryTerms walks the
\* text node of .main-content, initializeGlossaryTooltips appends the tooltip
\* and registers mouseover, mouseout and click on the document.
InitHighlights ==
  /\ loadGlossaryAwaited(initpc)
  /\ variant \in {"wiki", "app"}
  /\ sizeAboveZero(loaded.map)
  /\ glossaryMap' = loaded.map
  /\ highlightCalls' = highlightCalls + 1
  /\ highlightInElement(loaded.map)
  /\ IF hlpc' = "hung"
       THEN /\ initpc' = "hung"
            /\ UNCHANGED <<tooltips, listeners>>
       ELSE /\ initpc' = "done"
            /\ tooltips' = tooltips + 1
            /\ listeners' = listeners + 3
  /\ UNCHANGED <<text, htmlVars, tipVars, posVars, domVars>>
  /\ UNCHANGED <<variant, response, csv, fetches, loaded>>

\* The rest of init in the first copy: highlightGlossaryTerms rewrites
\* innerHTML, then the tooltip and its listeners.  An exception of
\* highlightGlossaryTerms rejects the promise of init.
InitHighlightsFirst ==
  /\ loadGlossaryAwaited(initpc)
  /\ variant = "first"
  /\ sizeAboveZero(loaded.map)
  /\ glossaryMap' = loaded.map
  /\ highlightCalls' = highlightCalls + 1
  /\ passes' = passes + 1
  /\ IF highlightFirstThrows(loaded.map)
       THEN /\ threw' = TRUE
            /\ initpc' = "failed"
            /\ UNCHANGED <<innerHTML, firstPassHTML, tooltips, listeners>>
       ELSE /\ innerHTML' = highlightFirst(innerHTML, loaded.map)
            /\ firstPassHTML' = innerHTML'
            /\ tooltips' = tooltips + 1
            /\ listeners' = listeners + 3
            /\ initpc' = "done"
            /\ UNCHANGED threw
  /\ UNCHANGED <<text, terms, matches, nonOverlapping, fragment, hlpc, tipVars, posVars, domVars>>
  /\ UNCHANGED <<variant, response, csv, fetches, loaded>>

NextInit ==
  \/ InitStart
  \/ HealthResolves
  \/ QueryResolves
  \/ FetchResolves
  \/ TextResolves
  \/ InitSkipsHighlight
  \/ InitHighlights
  \/ InitHighlightsFirst

SpecInit == InitInit /\ [][NextInit]_vars

\* ------------------------------------------------------------------------
\* Specification SpecTooltip: the listeners of initializeGlossaryTooltips
\* ------------------------------------------------------------------------

MaxTooltips == 2

\* The annotated elements of the page, by their data attributes.  The copy
\* with reference links never annotates with an empty definition (its loaders
\* drop such entries); the other two copies can.
PageSpans(v) ==
  IF v = "wiki"
    THEN << [definition |-> <<"D", "1">>, wikipedia_url |-> Null],
            [definition |-> <<"D", "2">>, wikipedia_url |-> <<"U", "2">>] >>
    ELSE << [definition |-> <<"D", "1">>, wikipedia_url |-> Null],
            [definition |-> <<"D", "2">>, wikipedia_url |-> Null],
            [definition |-> <<>>, wikipedia_url |-> Null] >>

\* Where an event can have its target: inside the annotated element el,
\* inside the tooltip, inside the tooltip's reference link (when the tooltip
\* holds one), or elsewhere on the page.
Targets(v, t) ==
  {[kind |-> "term", el |-> i] : i \in 1..Len(PageSpans(v))}
    \cup {[kind |-> "tooltip", el |-> 0], [kind |-> "page", el |-> 0]}
    \cup (IF v = "wiki" /\ t.link # Null THEN {[kind |-> "link", el |-> 0]} ELSE {})

\* clearTimeout(hideTimeout): takes the timer hideTimeout names off the
\* pending ones; nothing happens when that timer has already run.
clearTimeout(t) ==
  [t EXCEPT !.timers = IF t.hideTimeout = "pending" THEN @ - 1 ELSE @]

\* if (hideTimeout) { clearTimeout(hideTimeout); }
cancelPrevious_never(t) == t

cancelPrevious(t) == IF t.hideTimeout # "null" THEN clearTimeout(t) ELSE t

\* if (hideTimeout) { clearTimeout(hideTimeout); hideTimeout = null; }
clearHideTimeout(t) == [cancelPrevious(t) EXCEPT !.hideTimeout = "null"]

\* hideTimeout = setTimeout(() => { ... }, 300);
setHideTimeout(t) == [t EXCEPT !.timers = @ + 1, !.hideTimeout = "pending"]

\* buildTooltipContent(definition, wikipediaUrl) (tooltip.textContent =
\* definition in the copies without links), positionTooltip(tooltip, term),
\* then classList.add('show').  positionedFor is the element positionTooltip
\* was last called for.
showFor(v, t, el) ==
  [t EXCEPT !.definition = PageSpans(v)[el].definition,
            !.link = IF v = "wiki" THEN orNull(PageSpans(v)[el].wikipedia_url)
                     ELSE Null,
            !.positionedFor = el,
            !.show = TRUE]

\* tooltip.classList.remove('show'); currentTerm = null;
hideAndForget(t) == [t EXCEPT !.show = FALSE, !.currentTerm = 0]

\* The mouseover listener.
mouseover(v, t, target) ==
  IF v = "wiki"
    THEN IF target.kind = "term"
           THEN IF Truthy(PageSpans(v)[target.el].definition)
                  THEN showFor(v, clearHideTimeout(t), target.el)
                  ELSE clearHideTimeout(t)
         ELSE IF target.kind \in {"tooltip", "link"}
           THEN clearHideTimeout(t)
           ELSE t
    ELSE IF target.kind = "term" /\ Truthy(PageSpans(v)[target.el].definition)
           THEN showFor(v, t, target.el)
           ELSE t

\* The mouseout listener: the copy with links arms the hide timer (clearing
\* one that is pending), the other copies hide at once.
mouseout(v, t, target) ==
  IF v = "wiki"
    THEN IF target.kind \in {"term", "tooltip", "link"}
           THEN setHideTimeout(cancelPrevious(t))
           ELSE t
    ELSE IF target.kind = "term" THEN [t EXCEPT !.show = FALSE] ELSE t

\* event.target.closest('.tooltip-wiki-link')
insideWikiLink_never(v, target) == FALSE

insideWikiLink(v, target) == v = "wiki" /\ target.kind = "link"

\* currentTerm === term && tooltip.classList.contains('show')
sameTermShowing_never(t, el) == FALSE

sameTermShowing_anyTerm(t, el) == t.show

sameTermShowing(t, el) == t.currentTerm = el /\ t.show

\* The click listener.
click(v, t, target) ==
  IF insideWikiLink(v, target) THEN t
  ELSE IF target.kind = "term"
    THEN IF sameTermShowing(t, target.el)
           THEN hideAndForget(t)
         ELSE IF Truthy(PageSpans(v)[target.el].definition)
           THEN [showFor(v, t, target.el) EXCEPT !.currentTerm = target.el]
           ELSE t
    ELSE IF t.show THEN hideAndForget(t) ELSE t

\* The callback of setTimeout(..., 300).  hideTimeout keeps the id of the
\* timer that has run.
hideTimeoutCallback(t) ==
  [t EXCEPT !.show = FALSE, !.hideTimeout = "fired", !.timers = @ - 1]

\* The same callback run by a timer that hideTimeout no longer names.
staleTimeoutCallback(t) == [t EXCEPT !.show = FALSE, !.timers = @ - 1]

\* The pending timers that can run out next: the one hideTimeout names
\* (FALSE) and any other one that was set and never cleared (TRUE).
pendingTimers(t) ==
  {stale \in BOOLEAN :
     IF stale
       THEN t.timers > (IF t.hideTimeout = "pending" THEN 1 ELSE 0)
       ELSE t.hideTimeout = "pending"}

\* The page after init has highlighted and called initializeGlossaryTooltips.
InitTooltip ==
  /\ variant \in {"wiki", "app", "first"}
  /\ initpc = "done"
  /\ response = [kind |-> "none", data |-> <<>>]
  /\ csv = [kind |-> "none", csvText |-> <<>>]
  /\ fetches = 0
  /\ loaded = [resolved |-> TRUE, map |-> <<>>]
  /\ highlightCalls = 1
  /\ tooltips = 1
  /\ listeners = 3
  /\ tip = newTooltip
  /\ event = NoEvent
  /\ glossaryMap = <<>>
  /\ IdleScan
  /\ IdleHtml
  /\ IdlePos
  /\ IdleDom

Mouseover ==
  /\ \E target \in Targets(variant, tip) :
       /\ tip' = mouseover(variant, tip, target)
       /\ event' = [type |-> "mouseover", target |-> target, before |-> tip]
  /\ UNCHANGED <<hlVars, htmlVars, initVars, posVars, domVars>>

Mouseout ==
  /\ \E target \in Targets(variant, tip) :
       /\ tip' = mouseout(variant, tip, target)
       /\ event' = [type |-> "mouseout", target |-> target, before |-> tip]
  /\ UNCHANGED <<hlVars, htmlVars, initVars, posVars, domVars>>

Click ==
  /\ \E target \in Targets(variant, tip) :
       /\ tip' = click(variant, tip, target)
       /\ event' = [type |-> "click", target |-> target, before |-> tip]
  /\ UNCHANGED <<hlVars, htmlVars, initVars, posVars, domVars>>

\* The hide timer runs out.
HideTimeoutFires ==
  /\ \E stale \in pendingTimers(tip) :
       tip' = IF stale THEN staleTimeoutCallback(tip)
              ELSE hideTimeoutCallback(tip)
  /\ event' = [type |-> "timeout", target |-> NoEvent.target, before |-> tip]
  /\ UNCHANGED <<hlVars, htmlVars, initVars, posVars, domVars>>

\* The exported initializeGlossaryTooltips is called once more: it appends
\* another element with the id glossary-tooltip and registers its own three
\* listeners.  (tip stays the tooltip of the first call; later tooltips have
\* closures of their own.)
InitializeGlossaryTooltipsAgain ==
  /\ tooltips < MaxTooltips
  /\ tooltips' = tooltips + 1
  /\ listeners' = listeners + 3
  /\ event' = [type |-> "initialize", target |-> NoEvent.target, before |-> tip]
  /\ UNCHANGED <<variant, initpc, response, csv, fetches, loaded, highlightCalls>>
  /\ UNCHANGED <<tip, hlVars, htmlVars, posVars, domVars>>

NextTooltip ==
  \/ Mouseover
  \/ Mouseout
  \/ Click
  \/ HideTimeoutFires
  \/ InitializeGlossaryTooltipsAgain

SpecTooltip == InitTooltip /\ [][NextTooltip]_vars

\* ------------------------------------------------------------------------
\* Specification SpecPosition: positionTooltip
\* ------------------------------------------------------------------------

\* The gap between target and tooltip, the inset from the right edge, and the
\* least left coordinate.
Gap == 12
RightInset == 20
MinLeft == 10

\* rect.top - tooltipRect.height - 12 < 0
aboveViewportTop_never(r, t) == FALSE

aboveViewportTop(r, t) == r.top - t.height - Gap < 0

\* left + tooltipRect.width > window.innerWidth
overflowsRight_never(left, t, w) == FALSE

overflowsRight(left, t, w) == left + t.width > w.innerWidth

\* let top = ...; if (...) { top = rect.bottom + window.scrollY + 12; }
positionTop(r, t, w) ==
  IF aboveViewportTop(r, t) THEN r.bottom + w.scrollY + Gap
  ELSE r.top + w.scrollY - t.height - Gap

\* if (left < 10) { left = 10; }
clampLeft(left) == IF left < MinLeft THEN MinLeft ELSE left

\* let left = rect.left + window.scrollX; the two if statements on left.
positionLeft(r, t, w) ==
  clampLeft(IF overflowsRight(r.left + w.scrollX, t, w)
              THEN w.innerWidth - t.width - RightInset
              ELSE r.left + w.scrollX)

\* positionTooltip(tooltip, target): tooltip.style.top and .left.
positionTooltip(r, t, w) ==
  [top |-> positionTop(r, t, w), left |-> positionLeft(r, t, w)]

\* Lengths are multiples of GridStep, up to MaxGrid steps.
GridStep == 5
MaxGrid == 8

Grid(from, to) == {GridStep * k : k \in from..to}

\* The target's place on the page, its height, and the measures of the
\* tooltip and of the window.
PageTops == {0, 20, 40, 60}
TargetHeight == 10
TooltipHeights == {10, 30}
ScrollYs == {0, 20}
ScrollXs == {0, 15}
InnerWidth == 40

\* The target's rectangle in the viewport when the page is scrolled to
\* (scrollX, scrollY).
rectAt(pageTop, pageLeft, scrollX, scrollY) ==
  [top |-> pageTop - scrollY,
   bottom |-> pageTop - scrollY + TargetHeight,
   left |-> pageLeft - scrollX]

InitPosition ==
  /\ \E pageTop \in PageTops, pageLeft \in Grid(0, MaxGrid),
        scrollX \in ScrollXs, scrollY \in ScrollYs :
       /\ rect = rectAt(pageTop, pageLeft, scrollX, scrollY)
       /\ window = [scrollX |-> scrollX, scrollY |-> scrollY,
                    innerWidth |-> InnerWidth]
  /\ tooltipRect \in [height : TooltipHeights, width : Grid(1, MaxGrid)]
  /\ style = [top |-> Null, left |-> Null]
  /\ pospc = "unset"
  /\ IdleScan
  /\ glossaryMap = <<>>
  /\ IdleHtml
  /\ IdleInit
  /\ IdleTip
  /\ IdleDom

\* A show: positionTooltip runs on the rectangles of the moment.
PositionTooltip ==
  /\ pospc \in {"unset", "stale"}
  /\ style' = positionTooltip(rect, tooltipRect, window)
  /\ pospc' = "positioned"
  /\ UNCHANGED <<rect, tooltipRect, window>>
  /\ UNCHANGED <<hlVars, htmlVars, initVars, tipVars, domVars>>

\* The page is scrolled: the target's rectangle moves in the viewport, the
\* tooltip keeps the style of the last show.
Scroll ==
  /\ pospc = "positioned"
  /\ \E scrollX \in ScrollXs, scrollY \in ScrollYs :
       /\ <<scrollX, scrollY>> # <<window.scrollX, window.scrollY>>
       /\ window' = [window EXCEPT !.scrollX = scrollX, !.scrollY = scrollY]
       /\ rect' = [top |-> rect.top + window.scrollY - scrollY,
                   bottom |-> rect.bottom + window.scrollY - scrollY,
                   left |-> rect.left + window.scrollX - scrollX]
  /\ pospc' = "stale"
  /\ UNCHANGED <<tooltipRect, style>>
  /\ UNCHANGED <<hlVars, htmlVars, initVars, tipVars, domVars>>

NextPosition == PositionTooltip \/ Scroll

SpecPosition == InitPosition /\ [][NextPosition]_vars

\* ------------------------------------------------------------------------
\* Specification SpecDom: highlightGlossaryTerms over the nodes of a page
\* ------------------------------------------------------------------------

\* The class the selector '.main-content' asks for.
SelectorClass == "main-content"

\* acceptNode of the TreeWalker, for a text node and its parent element.
acceptNode(node, parent) ==
  /\ parent.className # "glossary-term"
  /\ trim(node.textContent) # <<>>

\* The rebuild done for every text node, matches or none.
replaceTextNode_always(node, found) ==
  buildFragment(node.textContent, removeOverlaps(<<>>, sortMatches(found)), 0)

\* The body of textNodes.forEach from "if (matches.length > 0)": the nodes
\* that stand in the place of the text node afterwards.
replaceTextNode(node, found) ==
  IF Len(found) > 0
    THEN buildFragment(node.textContent,
                       removeOverlaps(<<>>, sortMatches(found)), 0)
    ELSE <<node>>

\* The walk over the text nodes below an element, and what textNodes.forEach
\* makes of each.  (The walker has collected the text nodes before the first
\* is replaced; the nodes of a fragment are not among them.  The terms of this
\* specification are not empty, so every scan ends.)
RECURSIVE highlightChildNodes(_, _, _)
highlightChildNodes(parent, kids, ts) ==
  IF kids = <<>> THEN <<>>
  ELSE (IF Head(kids).nodeType = "text"
          THEN IF acceptNode(Head(kids), parent)
                 THEN replaceTextNode(Head(kids),
                                      findMatches(Head(kids).textContent, ts).found)
                 ELSE <<Head(kids)>>
          ELSE <<[Head(kids) EXCEPT
                    !.childNodes = highlightChildNodes(Head(kids),
                                                       Head(kids).childNodes, ts)]>>)
       \o highlightChildNodes(parent, Tail(kids), ts)

\* highlightInElement(element, terms) on an element with its subtree.
highlightInElementOf(element, ts) ==
  [element EXCEPT !.childNodes = highlightChildNodes(element, element.childNodes, ts)]

\* document.querySelectorAll(selector).length
RECURSIVE querySelectorAllLength(_, _)
querySelectorAllLength(nodes, cls) ==
  IF nodes = <<>> THEN 0
  ELSE (IF Head(nodes).nodeType = "element" /\ Head(nodes).className = cls
          THEN 1 ELSE 0)
       + querySelectorAllLength(Head(nodes).childNodes, cls)
       + querySelectorAllLength(Tail(nodes), cls)

\* The scan of the first container only.
RECURSIVE forEachContainer_firstOnly(_, _, _)
forEachContainer_firstOnly(nodes, cls, ts) ==
  IF nodes = <<>> THEN <<>>
  ELSE IF Head(nodes).nodeType = "element" /\ Head(nodes).className = cls
    THEN <<highlightInElementOf(Head(nodes), ts)>> \o Tail(nodes)
  ELSE IF querySelectorAllLength(<<Head(nodes)>>, cls) > 0
    THEN <<[Head(nodes) EXCEPT
              !.childNodes = forEachContainer_firstOnly(Head(nodes).childNodes,
                                                        cls, ts)]>>
         \o Tail(nodes)
  ELSE <<Head(nodes)>> \o forEachContainer_firstOnly(Tail(nodes), cls, ts)

\* One node in containers.forEach: scanned if the selector matches it.
scanIfContainer(node, cls, ts) ==
  IF node.nodeType = "element" /\ node.className = cls
    THEN highlightInElementOf(node, ts)
    ELSE node

\* containers.forEach(container => highlightInElement(container, terms)):
\* the containers in document order, also those inside other containers.
RECURSIVE forEachContainer(_, _, _)
forEachContainer(nodes, cls, ts) ==
  IF nodes = <<>> THEN <<>>
  ELSE <<[scanIfContainer(Head(nodes), cls, ts) EXCEPT
            !.childNodes =
              forEachContainer(scanIfContainer(Head(nodes), cls, ts).childNodes,
                               cls, ts)]>>
       \o forEachContainer(Tail(nodes), cls, ts)

\* Bound of the pages: the number of child nodes of the body.
MaxTopNodes == 2

\* Nodes of the page, with their local ids.
PageText(id, t) == [TextNode(t) EXCEPT !.id = id]

PageElement(id, cls, def, url, kids) ==
  [Element(cls, def, url, kids) EXCEPT !.id = id]

\* The subtrees a page is made of: a container with one text; a container
\* with a phrase, a nested element and white space; a container with an
\* annotated element and a text without any term; a container whose annotated
\* element holds its text inside a nested element; an element the selector
\* does not match; a container with a text without any term beside a text
\* with one; a container inside a container.
NodePool ==
  << PageElement(1, "main-content", Null, Null, <<PageText(2, <<"a">>)>>),
     PageElement(1, "main-content", Null, Null,
       << PageText(2, <<"A", " ", "a">>),
          PageElement(3, "", Null, Null, <<PageText(4, <<"a">>)>>),
          PageText(5, <<" ">>) >>),
     PageElement(1, "main-content", Null, Null,
       << PageElement(2, "glossary-term", <<"D", "9">>, Null,
                      <<PageText(3, <<"a">>)>>),
          PageText(4, <<".">>) >>),
     PageElement(1, "main-content", Null, Null,
       << PageElement(2, "glossary-term", <<"D", "9">>, Null,
            << PageElement(3, "", Null, Null, <<PageText(4, <<"a">>)>>) >>) >>),
     PageElement(1, "sidebar", Null, Null, <<PageText(2, <<"a">>)>>),
     PageElement(1, "main-content", Null, Null,
       << PageText(2, <<"a", "a", "a">>),
          PageElement(3, "", Null, Null, <<PageText(4, <<" ">>)>>),
          PageText(5, <<"a">>) >>),
     PageElement(1, "main-content", Null, Null,
       << PageText(2, <<"a">>),
          PageElement(3, "main-content", Null, Null,
                      <<PageText(4, <<"A", "a">>)>>) >>) >>

\* The subtree with its ids raised by base.
RECURSIVE reId(_, _)
reId(node, base) ==
  [node EXCEPT !.id = node.id + base,
               !.childNodes = [k \in 1..Len(node.childNodes) |->
                                 reId(node.childNodes[k], base)]]

\* Every page of at most n subtrees of the pool; the ids of the k-th subtree
\* begin at 10 * k.
DocumentsUpTo(n) ==
  UNION {{[k \in 1..m |-> reId(NodePool[f[k]], 10 * k)] :
            f \in [1..m -> 1..Len(NodePool)]} :
         m \in 0..n}

\* The dictionaries of this specification: a word, a longer word, a phrase.
DomEntryPool == SubSeq(EntryPool, 1, 3)

InitDom ==
  /\ glossaryMap \in MapsUpTo(DomEntryPool, MaxTerms)
  /\ document \in DocumentsUpTo(MaxTopNodes)
  /\ documentBefore = document
  /\ dompc = "ready"
  /\ IdleScan
  /\ IdleHtml
  /\ IdleInit
  /\ IdleTip
  /\ IdlePos

\* highlightGlossaryTerms('.main-content', glossaryMap) when the selector
\* matches nothing: console.warn and return.
HighlightNoContainer ==
  /\ dompc = "ready"
  /\ querySelectorAllLength(document, SelectorClass) = 0
  /\ dompc' = "noop"
  /\ UNCHANGED <<document, documentBefore>>
  /\ UNCHANGED <<hlVars, htmlVars, initVars, tipVars, posVars>>

\* highlightGlossaryTerms('.main-content', glossaryMap) with containers.
HighlightContainers ==
  /\ dompc = "ready"
  /\ querySelectorAllLength(document, SelectorClass) > 0
  /\ terms' = sortTerms(glossaryMap)
  /\ document' = forEachContainer(document, SelectorClass, terms')
  /\ dompc' = "done"
  /\ UNCHANGED documentBefore
  /\ UNCHANGED <<glossaryMap, text, matches, nonOverlapping, fragment, hlpc>>
  /\ UNCHANGED <<htmlVars, initVars, tipVars, posVars>>

NextDom == HighlightNoContainer \/ HighlightContainers

SpecDom == InitDom /\ [][NextDom]_vars

\* ------------------------------------------------------------------------
\* Claims about the matcher (SpecScan)
\* ------------------------------------------------------------------------

Kept(m) == \E k \in 1..Len(nonOverlapping) : nonOverlapping[k] = m

\* Match s lies inside match l, and l is a match of a longer term.
InsideLonger(s, l) ==
  /\ Len(l.term) > Len(s.term)
  /\ l.start <= s.start
  /\ s.end <= l.end

\* The annotated elements of the fragment, in order.
TermSpans(nodes) == SelectSeq(nodes, LAMBDA n : n.className = "glossary-term")

\* C1: the kept match spans of a text node are sorted by strictly increasing
\* start offset, and any two distinct kept spans are disjoint as half-open
\* intervals [start, end).
C1_KeptSortedDisjoint ==
  hlpc = "replaced" =>
    /\ \A i \in 1..(Len(nonOverlapping) - 1) :
         nonOverlapping[i].start < nonOverlapping[i + 1].start
    /\ \A i, j \in 1..Len(nonOverlapping) :
         i # j => \/ nonOverlapping[i].end <= nonOverlapping[j].start
                  \/ nonOverlapping[j].end <= nonOverlapping[i].start

\* C1 witness: a scan that kept two spans and discarded an overlapping match.
C1_Witness ==
  /\ hlpc = "replaced"
  /\ Len(nonOverlapping) >= 2
  /\ Len(matches) > Len(nonOverlapping)

\* C2 as stated: whenever a match of a shorter term lies inside a match of a
\* longer term, only the longer term's span is kept, and it carries the
\* longer term's definition.
C2_LongerAlwaysWins ==
  hlpc = "replaced" =>
    \A i, j \in 1..Len(matches) :
      InsideLonger(matches[j], matches[i]) =>
        /\ Kept(matches[i])
        /\ ~Kept(matches[j])

\* A kept span other than m that holds the start of m and comes before m in
\* the start-sorted order: it starts before m, or starts with m and is at
\* least as long.
Blocked(m) ==
  \E k \in 1..Len(nonOverlapping) :
    LET e == nonOverlapping[k]
    IN  /\ e # m
        /\ \/ (e.start < m.start /\ m.start < e.end)
           \/ (e.start = m.start /\ e.end >= m.end)

\* C2 as amended: whenever a match of a shorter term lies inside a match of a
\* longer term, and the longer match is not itself overlapped by a kept span
\* that precedes it, only the longer term's span is kept, and it carries the
\* longer term's definition and reference link.
C2_LongerWinsUnlessBlocked ==
  hlpc = "replaced" =>
    \A i, j \in 1..Len(matches) :
      (InsideLonger(matches[j], matches[i]) /\ ~Blocked(matches[i])) =>
        /\ Kept(matches[i])
        /\ ~Kept(matches[j])
        /\ \E e \in 1..Len(glossaryMap) :
             /\ glossaryMap[e].term = matches[i].term
             /\ glossaryMap[e].definition = matches[i].definition
             /\ glossaryMap[e].wikipedia_url = matches[i].wikipedia_url

\* C2 witness: the dictionary {"a", "a a"} on the text "a a" (the shape of
\* "color", "color grading" on "color grading"): one span, the whole phrase,
\* with the phrase's definition.
C2_Witness ==
  /\ hlpc = "replaced"
  /\ text = <<"a", " ", "a">>
  /\ glossaryMap = <<EntryPool[1], EntryPool[3]>>
  /\ Len(matches) = 3
  /\ Len(nonOverlapping) = 1
  /\ nonOverlapping[1].start = 0
  /\ nonOverlapping[1].end = 3
  /\ nonOverlapping[1].definition = EntryPool[3].definition

\* C3 as stated: every reported match is a whole-word occurrence: the
\* character before its start and the character after its end, when they
\* exist, are no word characters.
C3_WholeWord ==
  hlpc = "replaced" =>
    \A i \in 1..Len(matches) :
      /\ ~IsWordAt(text, matches[i].start - 1)
      /\ ~IsWordAt(text, matches[i].end)

\* Term t occurs at offset p of txt: the same characters up to letter case,
\* between two word boundaries.
OccursAt(t, txt, p) ==
  /\ p + Len(t) <= Len(txt)
  /\ \A k \in 1..Len(t) : charToLowerCase(txt[p + k]) = charToLowerCase(t[k])
  /\ AtWordBoundary(txt, p)
  /\ AtWordBoundary(txt, p + Len(t))

\* C4: matching ignores letter case (every occurrence of a term in any case is
\* covered by a match of that term, and every match equals its term up to
\* case); a match's text is the substring text[start, end) as written in the
\* scanned text; the annotated element made for a kept span shows exactly
\* that substring.
C4_CasePreserved ==
  hlpc \in {"replaced", "untouched"} =>
    /\ \A e \in 1..Len(terms) : \A p \in 0..Len(text) :
         OccursAt(terms[e].term, text, p) =>
           \E i \in 1..Len(matches) :
             /\ matches[i].term = terms[e].term
             /\ matches[i].start <= p
             /\ p < matches[i].end
    /\ \A i \in 1..Len(matches) :
         /\ matches[i].text = substring(text, matches[i].start, matches[i].end)
         /\ toLowerCase(matches[i].text) = toLowerCase(matches[i].term)
    /\ Len(TermSpans(fragment)) = Len(nonOverlapping)
    /\ \A i \in 1..Len(nonOverlapping) :
         TermSpans(fragment)[i].childNodes =
           <<TextNode(substring(text, nonOverlapping[i].start,
                                nonOverlapping[i].end))>>

\* C4 witness: a kept span whose text is spelled in another case than the
\* dictionary's term, shown as written.
C4_Witness ==
  /\ hlpc = "replaced"
  /\ \E i \in 1..Len(nonOverlapping) :
       /\ nonOverlapping[i].text # nonOverlapping[i].term
       /\ TermSpans(fragment)[i].childNodes[1].textContent = nonOverlapping[i].text

\* Two spans share at least one character.
IntervalsOverlap(x, y) == x.start < y.end /\ y.start < x.end

\* An earlier-starting candidate and a later-starting one that overlap.
EarlierOverlapsLater(x, y) == x.start < y.start /\ IntervalsOverlap(x, y)

\* The candidates are processed in ascending start order, and a candidate is
\* kept exactly when it overlaps no span kept before it.
KeptExactlyWhenFree ==
  /\ \A i, j \in 1..Len(matches) :
       i < j => matches[i].start <= matches[j].start
  /\ \A j \in 1..Len(matches) :
       Kept(matches[j]) <=>
         ~\E i \in 1..(j - 1) :
            Kept(matches[i]) /\ IntervalsOverlap(matches[i], matches[j])

\* C22 as stated: overlap resolution processes all candidate matches in
\* ascending start order and keeps a candidate exactly when it overlaps no
\* already-kept span; and of any two overlapping candidates the
\* earlier-starting one is kept and the later-starting one is not.
C22_EarlierAlwaysKept ==
  hlpc = "replaced" =>
    /\ KeptExactlyWhenFree
    /\ \A i, j \in 1..Len(matches) :
         EarlierOverlapsLater(matches[i], matches[j]) =>
           Kept(matches[i]) /\ ~Kept(matches[j])

\* C22 as amended: overlap resolution processes all candidate matches in
\* ascending start order and keeps a candidate exactly when it overlaps no
\* already-kept span; a kept span is always kept over a later-starting span
\* that overlaps it, even when the later one is longer.  (An earlier-starting
\* candidate that was itself discarded blocks nothing.)
C22_KeptBlocksLater ==
  hlpc = "replaced" =>
    /\ KeptExactlyWhenFree
    /\ \A i, j \in 1..Len(matches) :
         (EarlierOverlapsLater(matches[i], matches[j]) /\ Kept(matches[i])) =>
           ~Kept(matches[j])

\* C22 witness: a kept span has beaten a later-starting, longer candidate that
\* overlaps it.
C22_Witness ==
  /\ hlpc = "replaced"
  /\ \E i, j \in 1..Len(matches) :
       /\ EarlierOverlapsLater(matches[i], matches[j])
       /\ matches[j].end - matches[j].start > matches[i].end - matches[i].start
       /\ Kept(matches[i])
       /\ ~Kept(matches[j])

\* ------------------------------------------------------------------------
\* Claims about invoking the highlighter twice (SpecTwice)
\* ------------------------------------------------------------------------

\* pat occurs in s at offset i.
StartsAt(s, i, pat) ==
  /\ i + Len(pat) <= Len(s)
  /\ \A k \in 1..Len(pat) : s[i + k] = pat[k]

\* The offsets at which the markup of an annotated element opens.
SpanOpens(html) == {i \in 0..Len(html) : StartsAt(html, i, SpanOpen)}

\* The offset of the first closing tag after offset i (Len(html) if none).
FirstCloseAfter(html, i) ==
  LET closes == {k \in i..Len(html) : StartsAt(html, k, SpanClose)}
  IN  IF closes = {} THEN Len(html)
      ELSE CHOOSE k \in closes : \A c \in closes : k <= c

\* An annotated element opens inside the attribute value or the content of
\* another annotated element.
AnnotationNested(html) ==
  \E i, j \in SpanOpens(html) : i < j /\ j < FirstCloseAfter(html, i)

\* C5 as stated: invoking highlightGlossaryTerms twice in succession leaves
\* the container exactly as the first invocation left it, and at no time is
\* an annotated element nested inside another annotated element or inside an
\* attribute value.
C5_SecondPassChangesNothing ==
  /\ passes = 2 => innerHTML = firstPassHTML
  /\ ~AnnotationNested(innerHTML)

\* The same characters up to letter case.
EqualsIgnoringCase(a, b) ==
  /\ Len(a) = Len(b)
  /\ \A k \in 1..Len(a) : charToUpperCase(a[k]) = charToUpperCase(b[k])

\* The text of the annotated element whose markup opens at offset i, for an
\* element that carries the given definition.
SpanTextAt(html, i, definition) ==
  substring(html, i + Len(SpanOpen) + Len(definition) + 2,
            FirstCloseAfter(html, i + Len(SpanOpen) + Len(definition) + 2))

\* C17: a term with characters that are special in patterns is matched as
\* that literal character sequence only: every piece of text annotated for
\* the term equals the term up to letter case.  (Stated for a dictionary of
\* one entry, after one invocation on plain text.)
C17_SpecialCharsLiteral ==
  (passes = 1 /\ ~threw /\ Len(glossaryMap) = 1) =>
    \A i \in SpanOpens(innerHTML) :
      EqualsIgnoringCase(SpanTextAt(innerHTML, i, glossaryMap[1].definition),
                         glossaryMap[1].term)

\* C18: no dictionary entry makes the scan abort: highlighting completes
\* without raising, whatever the dictionary.
C18_NoEntryAborts == ~threw

\* Reading markup character by character: in the text, inside a tag, or
\* inside a quoted attribute value of a tag.
MarkupModes == {"text", "tag", "value"}

\* What one character does to the reader in mode m: the mode after it and the
\* text it contributes.
StripChar(c, m) ==
  IF m = "text"
    THEN IF c = "<" THEN [mode |-> "tag", out |-> <<>>]
         ELSE [mode |-> "text", out |-> <<c>>]
  ELSE IF m = "tag"
    THEN IF c = ">" THEN [mode |-> "text", out |-> <<>>]
         ELSE IF c = "\"" THEN [mode |-> "value", out |-> <<>>]
         ELSE [mode |-> "tag", out |-> <<>>]
  ELSE IF c = "\"" THEN [mode |-> "tag", out |-> <<>>]
       ELSE [mode |-> "value", out |-> <<>>]

\* The same for the characters lo..hi of html, by halves.
RECURSIVE StripRange(_, _, _)
StripRange(html, lo, hi) ==
  IF lo > hi THEN [m \in MarkupModes |-> [mode |-> m, out |-> <<>>]]
  ELSE IF lo = hi THEN [m \in MarkupModes |-> StripChar(html[lo], m)]
  ELSE LET mid == (lo + hi) \div 2
           left == StripRange(html, lo, mid)
           right == StripRange(html, mid + 1, hi)
       IN  [m \in MarkupModes |->
              [mode |-> right[left[m].mode].mode,
               out |-> left[m].out \o right[left[m].mode].out]]

\* The text of a piece of markup: the characters outside the tags.
StripTags(html) == StripRange(html, 1, Len(html))["text"].out

\* C25: a text node with matches is replaced in place by plain-text runs and
\* annotated elements in text order, one annotated element per kept span:
\* the text of the pieces, put together, is the original text, and no
\* annotated element lies inside another or inside an attribute value.
C25_ReplacedInPlace ==
  (passes = 1 /\ ~threw) =>
    /\ StripTags(innerHTML) = text
    /\ \A i, j \in SpanOpens(innerHTML) :
         i < j => FirstCloseAfter(innerHTML, i) < j

\* ------------------------------------------------------------------------
\* Claims about the loaders and init (SpecInit)
\* ------------------------------------------------------------------------

\* The query failed or gave nothing: an error, no data, zero rows, a rejection.
RemoteFailedOrEmpty ==
  \/ response.kind \in {"throws", "error", "nodata"}
  \/ response.kind = "rows" /\ response.data = <<>>

\* The dictionary loadGlossaryFromCSV makes of the local file.  The first copy
\* has no parser of its own; it is measured against the parser of the copy
\* that replaced it.
LocalFileDictionary ==
  loadGlossaryFromCSV(IF variant = "app" THEN "app" ELSE "wiki", csv)

\* C6: when the glossary query reports an error, returns no data or zero
\* rows, or throws, loadGlossary resolves with exactly the dictionary the
\* parser of the local file produces from /local_files/glossary.csv.
C6_FallbackOnFailure ==
  (loaded.resolved /\ RemoteFailedOrEmpty) => loaded.map = LocalFileDictionary

\* C7: loadGlossary resolves with the first non-empty dictionary, remote rows
\* before local file: a non-empty dictionary built from the rows is returned
\* and the file is not fetched; whenever the dictionary built from the rows is
\* empty, the dictionary of the local file is returned.
C7_FirstNonEmptyWins ==
  (variant \in {"wiki", "app"} /\ loaded.resolved) =>
    LET built == remoteMap(variant, <<>>, response.data)
    IN  IF built # <<>>
          THEN loaded.map = built /\ fetches = 0
          ELSE loaded.map = LocalFileDictionary

\* The fields of one line of comma-separated text read by the usual quoting
\* rules: inside quotes a comma is part of the field and a doubled quote
\* stands for one quote.
RECURSIVE csvFields(_, _, _, _)
csvFields(line, i, inQuotes, field) ==
  IF i > Len(line) THEN <<field>>
  ELSE IF inQuotes
    THEN IF line[i] = "\"" /\ i < Len(line) /\ line[i + 1] = "\""
           THEN csvFields(line, i + 2, TRUE, Append(field, "\""))
         ELSE IF line[i] = "\""
           THEN csvFields(line, i + 1, FALSE, field)
           ELSE csvFields(line, i + 1, TRUE, Append(field, line[i]))
    ELSE IF line[i] = "\""
           THEN csvFields(line, i + 1, TRUE, field)
         ELSE IF line[i] = ","
           THEN <<field>> \o csvFields(line, i + 1, FALSE, <<>>)
           ELSE csvFields(line, i + 1, FALSE, Append(field, line[i]))

\* The data lines of the local file that are not blank.
DataLines ==
  LET lines == split(csv.csvText, "\n")
  IN  {trim(lines[i]) : i \in 2..Len(lines)} \ {<<>>}

\* The term or the definition holds a comma or a quote, so it was quoted.
QuotedSpecial(fields) ==
  \E k \in 1..2 : \E i \in 1..Len(fields[k]) : fields[k][i] \in {",", "\""}

\* C8: for every row of the local file whose quoted term or definition holds
\* a comma or a doubled quote, the parsed dictionary has an entry whose term
\* and definition are the unquoted fields, commas kept and doubled quotes
\* reduced, and whose link is the third field where the file has that column.
\* (The files have the columns term, definition and, some, wikipedia_url.)
C8_QuotedFieldsSurvive ==
  (loaded.resolved /\ fetches = 1 /\ csv.kind = "ok") =>
    \A line \in DataLines :
      LET fields == csvFields(line, 1, FALSE, <<>>)
      IN  (Len(fields) >= 2 /\ QuotedSpecial(fields)) =>
            \E i \in 1..Len(loaded.map) :
              /\ loaded.map[i].term = fields[1]
              /\ loaded.map[i].definition = fields[2]
              /\ (variant = "wiki" /\ Len(fields) >= 3) =>
                    loaded.map[i].wikipedia_url = orNull(fields[3])

\* C9: if the query fails or is empty and the local file fails too (a
\* response that is not ok, or an exception), loadGlossary resolves with an
\* empty dictionary, and init rewrites no content, appends no tooltip and
\* registers none of the tooltip's listeners.
C9_BothSourcesFail ==
  (loaded.resolved /\ RemoteFailedOrEmpty /\ csv.kind # "ok") =>
    /\ loaded.map = <<>>
    /\ highlightCalls = 0
    /\ fragment = <<>> /\ hlpc \in {"ready", "idle"}
    /\ passes = 0
    /\ tooltips = 0
    /\ listeners = 0

\* init has run to its end after the query threw and the local file was
\* answered with a response that is not ok.
C9_Witness ==
  /\ initpc = "done"
  /\ variant = "wiki"
  /\ response.kind = "throws"
  /\ csv.kind = "notok"
  /\ fetches = 1
  /\ loaded.resolved /\ loaded.map = <<>>

\* A row of the response that the running copy stores in the Map.
StoredRow(row) ==
  variant = "first" \/ (Truthy(row.term) /\ Truthy(row.definition))

\* C10: highlightGlossaryTerms is invoked at most once by init, never before
\* loadGlossary (with its fallback to the local file) has resolved, and with
\* the complete dictionary: the Map loadGlossary resolved with, which holds
\* every stored row of the response or, after a fallback, all the parser made
\* of the local file.
C10_HighlightAfterLoad ==
  /\ highlightCalls <= 1
  /\ highlightCalls = 1 =>
       /\ loaded.resolved
       /\ glossaryMap = loaded.map
       /\ IF fetches = 0
            THEN \A k \in 1..Len(response.data) :
                   StoredRow(response.data[k]) =>
                     \E i \in 1..Len(glossaryMap) :
                       glossaryMap[i].term = response.data[k].term
            ELSE glossaryMap = LocalFileDictionary

\* init has highlighted once, after the fallback to the local file, with a
\* dictionary of two entries.
C10_Witness ==
  /\ initpc = "done"
  /\ highlightCalls = 1
  /\ fetches = 1
  /\ Len(glossaryMap) = 2

\* C19: the dictionary loadGlossary resolves with, from the rows of the query
\* or from the local file, never holds two terms that are equal when compared
\* without regard to case.
C19_NoCaseDuplicates ==
  loaded.resolved =>
    \A i, j \in 1..Len(loaded.map) :
      i # j => ~EqualsIgnoringCase(loaded.map[i].term, loaded.map[j].term)

\* A line of the local file that is not blank and has fewer than two fields:
\* the row lacks the term or the definition column.
BadRow(line) ==
  /\ trim(line) # <<>>
  /\ Len(csvFields(trim(line), 1, FALSE, <<>>)) < 2

GoodRow(line) == ~BadRow(line)

RECURSIVE join(_, _)
join(lines, sep) ==
  IF lines = <<>> THEN <<>>
  ELSE IF Len(lines) = 1 THEN lines[1]
  ELSE lines[1] \o <<sep>> \o join(Tail(lines), sep)

\* The text of the file with its bad rows taken out; the header stays.
WithoutBadRows(csvText) ==
  LET lines == split(csvText, "\n")
  IN  join(<<lines[1]>> \o SelectSeq(Tail(lines), GoodRow), "\n")

\* C20: a row of the local file that lacks the term or the definition column
\* is skipped and does not end the parsing: the dictionary loadGlossary
\* resolves with after the fallback equals the one parsed from the same file
\* with the bad rows removed.
C20_BadRowsSkipped ==
  (loaded.resolved /\ fetches = 1 /\ csv.kind = "ok") =>
    loaded.map =
      loadGlossaryFromCSV(IF variant = "app" THEN "app" ELSE "wiki",
                          [csv EXCEPT !.csvText = WithoutBadRows(csv.csvText)])

\* The fallback has parsed a file with a bad row between two good ones, and
\* both good rows have their entries.
C20_Witness ==
  /\ loaded.resolved
  /\ fetches = 1
  /\ csv.kind = "ok"
  /\ WithoutBadRows(csv.csvText) # csv.csvText
  /\ \E i, j \in 1..Len(loaded.map) :
       /\ loaded.map[i].term = <<"a">>
       /\ loaded.map[j].term = <<"A">>

\* The annotated element carries the definition of entry e, and its
\* reference link exactly when e has one.
CarriesEntry(span, e) ==
  /\ span.definition = e.definition
  /\ span.wikipedia_url = orNull(e.wikipedia_url)

\* C26: after init has highlighted with the dictionary it loaded, from the
\* rows of the query or from the local file, each annotated element carries
\* the definition of a dictionary entry whose term equals the element's
\* visible text up to letter case, and the reference link of that entry
\* exactly when the entry has one.
C26_SpanCarriesEntry ==
  (highlightCalls = 1 /\ hlpc = "replaced") =>
    \A i \in 1..Len(fragment) :
      fragment[i].className = "glossary-term" =>
        \E k \in 1..Len(glossaryMap) :
          /\ EqualsIgnoringCase(glossaryMap[k].term,
                                fragment[i].childNodes[1].textContent)
          /\ CarriesEntry(fragment[i], glossaryMap[k])

\* C26 witness: the dictionary came from the local file, and an annotated
\* element carries the reference link of its entry.
C26_Witness ==
  /\ highlightCalls = 1
  /\ hlpc = "replaced"
  /\ fetches = 1
  /\ \E i \in 1..Len(fragment) :
       /\ fragment[i].className = "glossary-term"
       /\ fragment[i].wikipedia_url # Null

\* C31: for every dictionary the loaders can produce and every text, the
\* loop that collects the matches of a term ends, so highlightGlossaryTerms
\* returns and init goes on.
C31_ScanTerminates == hlpc # "hung" /\ initpc # "hung"

\* ------------------------------------------------------------------------
\* Claims about the tooltip (SpecTooltip)
\* ------------------------------------------------------------------------

\* The last event was of the given type with its target inside an annotated
\* element.
OnTerm(type) == event.type = type /\ event.target.kind = "term"

\* C11: when the pointer leaves an annotated element while the tooltip shows,
\* the tooltip stays visible and a hide is pending; when the pointer then
\* enters the tooltip or an annotated element, the pending hide is cancelled
\* and the tooltip stays visible; when the delay runs out, the tooltip is
\* hidden.
C11_DelayedHide ==
  /\ (OnTerm("mouseout") /\ event.before.show) =>
       (tip.show /\ tip.hideTimeout = "pending")
  /\ (event.type = "mouseover" /\ event.target.kind \in {"term", "tooltip", "link"}
        /\ event.before.show /\ event.before.hideTimeout = "pending") =>
       (tip.show /\ tip.hideTimeout # "pending")
  /\ event.type = "timeout" => ~tip.show

\* A transition that supersedes a pending hide: the pointer enters an
\* annotated element or the tooltip, a tap shows the tooltip for an annotated
\* element, a tap hides the tooltip.
Supersedes ==
  \/ event.type = "mouseover" /\ event.target.kind \in {"term", "tooltip", "link"}
  \/ OnTerm("click") /\ tip.show /\ tip.currentTerm = event.target.el
  \/ event.type = "click" /\ event.before.show /\ ~tip.show

\* C12: every transition that supersedes a pending hide cancels the hide
\* timer, so no hide that was scheduled before a show is left to run after
\* it.
C12_SupersedingCancels ==
  (Supersedes /\ event.before.hideTimeout = "pending") =>
    tip.hideTimeout # "pending"

\* C13: a tap on the annotated element that is the active element while the
\* tooltip is visible (a first tap has shown the tooltip for it) hides the
\* tooltip and clears the active element.
C13_SecondTapHides ==
  (OnTerm("click") /\ event.before.show
     /\ event.before.currentTerm = event.target.el) =>
    (~tip.show /\ tip.currentTerm = 0)

\* The second of two taps on annotated element 1 has been handled.
C13_Witness ==
  /\ OnTerm("click") /\ event.target.el = 1
  /\ event.before.show /\ event.before.currentTerm = 1
  /\ ~tip.show /\ tip.currentTerm = 0

\* C14: in the copy with reference links, a tap on annotated element B while
\* the tooltip shows for another element leaves the tooltip visible, with
\* B's definition and B's link (none if B has none) as its content and B as
\* the active element.
C14_TapOtherReplaces ==
  (variant = "wiki" /\ OnTerm("click") /\ event.before.show
     /\ event.before.currentTerm # event.target.el) =>
    /\ tip.show
    /\ tip.definition = PageSpans(variant)[event.target.el].definition
    /\ tip.link = PageSpans(variant)[event.target.el].wikipedia_url
    /\ tip.currentTerm = event.target.el

\* Element 2 was tapped while the tooltip showed for element 1, the active
\* element.
C14_Witness ==
  /\ variant = "wiki"
  /\ OnTerm("click") /\ event.target.el = 2
  /\ event.before.show /\ event.before.currentTerm = 1
  /\ event.before.definition = PageSpans(variant)[1].definition
  /\ tip.show /\ tip.currentTerm = 2
  /\ tip.definition = PageSpans(variant)[2].definition
  /\ tip.link = PageSpans(variant)[2].wikipedia_url

\* C15: a tap outside every annotated element hides a visible tooltip and
\* clears the active element, unless its target is inside the tooltip's
\* reference link: then visibility, content and active element stay as they
\* were.
C15_TapElsewhere ==
  /\ (event.type = "click" /\ event.target.kind \in {"page", "tooltip"}
        /\ event.before.show) =>
       (~tip.show /\ tip.currentTerm = 0)
  /\ (event.type = "click" /\ event.target.kind = "link") =>
       /\ tip.show = event.before.show
       /\ tip.definition = event.before.definition
       /\ tip.link = event.before.link
       /\ tip.currentTerm = event.before.currentTerm

\* The reference link of the visible tooltip was tapped while an element was
\* active.
C15_Witness ==
  /\ event.type = "click" /\ event.target.kind = "link"
  /\ event.before.show /\ event.before.currentTerm = 2
  /\ tip.show /\ tip.currentTerm = 2 /\ tip.link # Null

\* C16: after initialization the page holds exactly one tooltip element,
\* whatever events and invocations of initializeGlossaryTooltips have
\* occurred.
C16_OneTooltip == tooltips = 1

\* C27: when the pending-hide timer has fired, the tooltip is hidden and no
\* annotated element is recorded as active.
C27_TimerHideClearsActive ==
  event.type = "timeout" => (~tip.show /\ tip.currentTerm = 0)

\* C28: when the pointer enters an annotated element that has a definition
\* while the tooltip is hidden, the tooltip becomes visible, shows that
\* element's definition and reference link, is positioned for that element,
\* and that element becomes the active element.
C28_PointerEnterShows ==
  (/\ event.type = "mouseover"
   /\ event.target.kind = "term"
   /\ Truthy(PageSpans(variant)[event.target.el].definition)
   /\ ~event.before.show) =>
    /\ tip.show
    /\ tip.definition = PageSpans(variant)[event.target.el].definition
    /\ tip.link = orNull(PageSpans(variant)[event.target.el].wikipedia_url)
    /\ tip.positionedFor = event.target.el
    /\ tip.currentTerm = event.target.el

\* The last event was a mouseout that arms the hide timer: the pointer left
\* an annotated element or the tooltip in the copy with reference links.
SchedulesHide ==
  /\ variant = "wiki"
  /\ event.type = "mouseout"
  /\ event.target.kind \in {"term", "tooltip", "link"}

\* C32: at most one hide timer is pending at any moment; a mouseout that
\* schedules a hide leaves exactly one pending, whatever was pending before,
\* and once a timer has run out none is left to hide the tooltip again.
C32_OneHideTimer ==
  /\ tip.timers <= 1
  /\ SchedulesHide => tip.timers = 1
  /\ event.type = "timeout" => tip.timers = 0

\* A hide is scheduled while the one scheduled before is still pending.
C32_Witness ==
  /\ SchedulesHide
  /\ event.before.hideTimeout = "pending"
  /\ event.before.timers = 1
  /\ tip.timers = 1

\* ------------------------------------------------------------------------
\* Claims about positionTooltip (SpecPosition)
\* ------------------------------------------------------------------------

\* The tooltip placed above the target would begin above the top of the
\* visible viewport.
AboveWouldLeaveViewport == rect.top - tooltipRect.height - 12 < 0

\* C29: positionTooltip places the tooltip above the target, its bottom 12
\* above the target's top in page coordinates, unless it would then begin
\* above the top of the visible viewport: then it places the tooltip 12 below
\* the target's bottom.  Every show computes the choice anew, from the
\* rectangles of the moment.
C29_AboveUnlessOffTop ==
  pospc = "positioned" =>
    IF AboveWouldLeaveViewport
      THEN style.top = rect.bottom + window.scrollY + 12
      ELSE /\ style.top + tooltipRect.height + 12 = rect.top + window.scrollY
           /\ style.top - window.scrollY >= 0

\* C29 witness: a show on a scrolled page that placed the tooltip below the
\* target because the place above it begins above the viewport, although it
\* lies on the page.
C29_Witness ==
  /\ pospc = "positioned"
  /\ window.scrollY > 0
  /\ AboveWouldLeaveViewport
  /\ style.top = rect.bottom + window.scrollY + 12
  /\ rect.top + window.scrollY - tooltipRect.height - 12 >= 0

\* The tooltip at the target's left edge would pass the right edge of the
\* visible viewport.
WouldOverflowRight == rect.left + tooltipRect.width > window.innerWidth

\* The right edge of the tooltip is not beyond the right edge of the visible
\* viewport (page coordinates).
RightEdgeInside ==
  style.left + tooltipRect.width <= window.scrollX + window.innerWidth

RECURSIVE NodesOf(_)
NodesOf(nodes) ==
  IF nodes = <<>> THEN {}
  ELSE {Head(nodes)} \cup NodesOf(Head(nodes).childNodes) \cup NodesOf(Tail(nodes))

\* The ids of a list of sibling nodes, in order.
IdsOf(nodes) == [k \in 1..Len(nodes) |-> nodes[k].id]

\* Where every node of a tree stands: the node, the id of its parent and the
\* ids of the child nodes of that parent, in order.
RECURSIVE Places(_, _)
Places(nodes, parentId) ==
  {[node |-> nodes[k], parent |-> parentId, siblings |-> IdsOf(nodes)] :
     k \in 1..Len(nodes)}
    \cup UNION {Places(nodes[k].childNodes, nodes[k].id) : k \in 1..Len(nodes)}

\* The selector matches the node.
IsContainer(node) == node.nodeType = "element" /\ node.className = SelectorClass

\* C21: when the selector matches no container, highlightGlossaryTerms
\* returns and no node of the document is modified; when it matches several,
\* each container is scanned, all with the one list of the dictionary's
\* entries sorted longest term first.
C21_ContainersScanned ==
  /\ dompc = "noop" =>
       /\ document = documentBefore
       /\ \A n \in NodesOf(documentBefore) : ~IsContainer(n)
  /\ dompc = "done" =>
       /\ terms = SortByLength(glossaryMap)
       /\ \A i \in 1..Len(documentBefore) :
            IF IsContainer(documentBefore[i])
              THEN document[i] = highlightInElementOf(documentBefore[i], terms)
              ELSE document[i] = documentBefore[i]

\* C21 witness: the selector matched two containers and both were rewritten,
\* with a dictionary that the sort had to reorder.
C21_Witness ==
  /\ dompc = "done"
  /\ Len(document) = 2
  /\ IsContainer(documentBefore[1])
  /\ IsContainer(documentBefore[2])
  /\ document[1] # documentBefore[1]
  /\ document[2] # documentBefore[2]
  /\ terms # glossaryMap

\* C23: the highlighter changes nothing inside an element that was annotated
\* before the call, whether the text is its direct child or lies deeper, and
\* leaves every text node of white space as it is.
C23_AnnotatedAndBlankLeftAlone ==
  dompc = "done" =>
    \A n \in NodesOf(documentBefore) :
      (\/ n.className = "glossary-term"
       \/ (n.nodeType = "text" /\ trim(n.textContent) = <<>>)) =>
        n \in NodesOf(document)

\* No term of the dictionary occurs in txt.
NoOccurrence(txt) ==
  \A e \in 1..Len(glossaryMap) : \A p \in 0..Len(txt) :
    ~OccursAt(glossaryMap[e].term, txt, p)

\* The ids of ids that are ids of nodes of the page and occur in among.
Surviving(ids, among) ==
  SelectSeq(ids, LAMBDA i : i > 0 /\ \E k \in 1..Len(among) : among[k] = i)

====
